---- MODULE Spec2Model ----
(***************************************************************************)
(* Graflow workflow engine: the execution loop over a task graph, the      *)
(* runtime control directives of a task handler (next_task,                *)
(* next_iteration, terminate_workflow, cancel_workflow, checkpoint), the   *)
(* deferred checkpoint with resume, the BSP execution of a ParallelGroup   *)
(* by task workers behind a barrier under its execution policy, the retry  *)
(* of a faulted task, the Channel with TTL, and the resolution of the      *)
(* parameters of a handler.                                                *)
(***************************************************************************)
EXTENDS Integers, Sequences, FiniteSets, TLC

VARIABLES
    nodes,                \* TaskGraph: ids of the nodes
    succ,                 \* TaskGraph: node id -> successors, in insertion order
    members,              \* TaskGraph: ParallelGroup node -> its branch ids
    policy,               \* execution policy of the ParallelGroup
    start_node,           \* argument of wf.execute(): a node id or None
    status,               \* state of the run
    error,                \* exception raised to the caller of wf.execute()
    queue,                \* ExecutionContext: task queue of pending task ids
    executing,            \* the task in EXECUTING state, or None
    completed,            \* ExecutionContext: completed task ids
    cycle_counts,         \* ExecutionContext: task id -> cycle count
    retry_count,          \* TaskSpec: task id -> attempts that faulted
    steps,                \* ExecutionContext: steps executed
    directives,           \* control flags set by the running handler
    checkpoint_requested, \* ExecutionContext: deferred checkpoint flag
    ckpt,                 \* the last checkpoint written, if any
    nckpt,                \* number of checkpoints written
    resumes,              \* number of resume_from_checkpoint() calls
    barrier,              \* Redis barrier of the group: [n, count]
    work,                 \* Redis task queue of dispatched branch ids
    worker,               \* worker id -> the set holding its branch in flight
    outcome,              \* branch id -> "none" | "ok" | "failed"
    waiting,              \* the producer is blocked in wait_barrier
    joinEnq,              \* enqueues of the joint successors since dispatch
    last,                 \* the last step taken and what it enqueued
    channel,              \* Channel: key -> entry (value, expiry instant)
    now,                  \* the clock, in seconds
    called,               \* the last call on the channel and what it returned
    bound,                \* task instance: parameter -> value bound at creation
    injection,            \* task declaration: the parameters that are injected
    resolved,             \* parameter -> the value the handler is called with
    feedback,             \* the human-feedback request of the run, if any
    redis,                \* RedisChannel: the keys held by the Redis server
    reply,                \* the last call on the RedisChannel and its return
    keyspace,             \* Redis: key -> the list or the value stored under it
    worker_prefix,        \* worker id -> its --redis-key-prefix
    lifecycle,            \* worker id -> its state and shutdown deadline
    collected             \* branch ids whose handler has appended its result

vars == <<nodes, succ, members, policy, start_node, status, error, queue,
          executing, completed, cycle_counts, retry_count, steps, directives,
          checkpoint_requested, ckpt, nckpt, resumes, barrier, work, worker,
          outcome, waiting, joinEnq, last, channel, now, called, bound,
          injection, resolved, feedback, redis, reply, keyspace,
          worker_prefix, lifecycle, collected>>

graphVars == <<nodes, succ, members, policy, start_node>>
groupVars == <<barrier, work, worker, outcome, waiting, joinEnq>>
ckptVars  == <<ckpt, nckpt, resumes>>
chanVars  == <<channel, now, called>>
paramVars == <<bound, injection, resolved>>
dataVars  == <<chanVars, paramVars>>
remoteVars == <<redis, reply>>
deployVars == <<keyspace, worker_prefix, lifecycle>>
branchVars == <<collected>>
envVars   == <<feedback, remoteVars, deployVars, branchVars>>

(* The state of the engine, which a call on the channel leaves alone. *)
engineVars == <<graphVars, status, error, queue, executing, completed,
                cycle_counts, retry_count, steps, directives,
                checkpoint_requested, ckptVars, groupVars, last>>

None == "none"

(* ---- bounds ---- *)
MaxSteps == 3         \* tasks dequeued in one run
MaxDirectives == 2    \* control directives one handler execution issues
MaxCycles == 2        \* self-loops of one task
MaxAttempts == 2      \* retry policy: attempts of one task
MaxResumes == 1       \* resumes from a checkpoint
MaxTime == 3          \* seconds the clock advances
MaxTTL == 2           \* longest ttl, in seconds
MaxItems == 2         \* items of a list in the channel
NBranches == 2        \* branches of the ParallelGroup
GroupBranches == 4    \* branches of the group the policies are evaluated on
NWorkers == 2         \* task workers polling the Redis queue
GracefulShutdownTimeout == 1   \* graceful_shutdown_timeout, in seconds

Tasks == {"a", "b", "c", "e", "g"}
BranchIds == 1..NBranches
Workers == 1..NWorkers
Reasons == {"r1", "r2"}
Injected == {"a"}    \* tasks declared with inject_context=True

Range(s) == {s[i] : i \in 1..Len(s)}

NoSucc == [t \in Tasks |-> <<>>]

(* The workflows the runs are taken over:                                  *)
(*   1  a >> b, a >> c, with e defined outside the main flow               *)
(*   2  e >> a, e >> b, a >> c                                             *)
(*   3  (x1 | .. | xN) >> c, the group being node g                        *)
(*   4  a >> b >> a, no node without predecessor                           *)
Graphs ==
    << [nodes |-> {"a", "b", "c", "e"},
        succ |-> [NoSucc EXCEPT !["a"] = <<"b", "c">>],
        group |-> {}],
       [nodes |-> {"a", "b", "c", "e"},
        succ |-> [NoSucc EXCEPT !["e"] = <<"a", "b">>, !["a"] = <<"c">>],
        group |-> {}],
       [nodes |-> {"g", "c"},
        succ |-> [NoSucc EXCEPT !["g"] = <<"c">>],
        group |-> {"g"}],
       [nodes |-> {"a", "b"},
        succ |-> [NoSucc EXCEPT !["a"] = <<"b">>, !["b"] = <<"a">>],
        group |-> {}] >>

Policies ==
    { [kind |-> "Strict", min |-> 0, ids |-> {}],
      [kind |-> "BestEffort", min |-> 0, ids |-> {}],
      [kind |-> "AtLeastN", min |-> 1, ids |-> {}],
      [kind |-> "Critical", min |-> 0, ids |-> {1}] }

(* No with_execution(policy=...) on the group. *)
NoPolicy == [kind |-> None, min |-> 0, ids |-> {}]

(* Every policy a group of GroupBranches branches can be given, min_success
   above the number of branches and an empty critical_task_ids included. *)
GroupPolicies ==
    { NoPolicy,
      [kind |-> "Strict", min |-> 0, ids |-> {}],
      [kind |-> "BestEffort", min |-> 0, ids |-> {}] }
    \cup { [kind |-> "AtLeastN", min |-> n, ids |-> {}] :
             n \in 1..(GroupBranches + 1) }
    \cup { [kind |-> "Critical", min |-> 0, ids |-> c] :
             c \in SUBSET (1..GroupBranches) }

NoCheckpoint ==
    [task |-> None, completed_tasks |-> {}, cycle_counts |-> <<>>,
     pending_tasks |-> <<>>, executing |-> None, steps |-> 0,
     channel |-> <<>>, retry_count |-> <<>>, was_pending |-> <<>>,
     enqueued |-> <<>>]

NoDirectives ==
    [cancel |-> None, terminate |-> FALSE, jump |-> None, goto |-> FALSE,
     loop |-> FALSE]

(* No human feedback has been requested. checkpoint holds the number of the
   checkpoint written when the request timed out. *)
NoFeedback == [task |-> None, state |-> "none", checkpoint |-> {}]

(* ---- TaskWorker lifecycle ---- *)

(* A worker is "running", "stopping" once it got SIGTERM or SIGINT, then
   "stopped"; deadline is the instant its graceful shutdown times out. *)
Started == [state |-> "running", deadline |-> {}]

(* ---- Redis keys under a key_prefix ---- *)

(* The key_prefix of two applications on the same Redis server. *)
Prefixes == {"app_a:workflows", "app_b:workflows"}

(* Mutant: the queue is kept under the default prefix whatever key_prefix. *)
queue_key_default(p) == "graflow:queue"

(* The key of the task queue. *)
queue_key(p) == p \o ":queue"

(* The key of a channel entry. *)
channel_key(p, k) == p \o ":channel:" \o k

SharedKeys == {"k"}

RedisKeys ==
    {queue_key(p) : p \in Prefixes}
        \cup {channel_key(p, k) : p \in Prefixes, k \in SharedKeys}

(* A task spec in the Redis queue; producer records the key_prefix of the
   run that enqueued it. *)
TaskSpec(p, id) == [producer |-> p, id |-> id]

NoReport == [seen |-> {}, ok |-> {}, timeout |-> FALSE]

(* ---- Channel: the key-value store of a run ---- *)

UserKeys == {"k", "logs"}

(* Result storage format: {task_id}.__result__ *)
result_key(t) == t \o ".__result__"

(* The parameters of the handlers, looked up in the channel by name. *)
ParamNames == {"value", "multiplier", "ctx"}

ChannelKeys == UserKeys \cup ParamNames \cup {result_key(t) : t \in Tasks}

(* A stored value: a scalar, or the list that append and prepend build.
   NoValue is Python's None. *)
NoValue == [list |-> FALSE, items |-> <<>>]

scalar(v) == [list |-> FALSE, items |-> <<v>>]

(* ttl=None is the empty set, ttl=n the set {n}; the expiry instant of an
   entry likewise. *)
NoTTL == {}

Absent == [present |-> FALSE, value |-> NoValue, expires |-> NoTTL]

EmptyChannel == [k \in ChannelKeys |-> Absent]

expiry(ttl, t) == {t + n : n \in ttl}

(* channel.set(key, value, ttl) at instant t *)
channel_set(ch, k, v, ttl, t) ==
    [ch EXCEPT ![k] = [present |-> TRUE, value |-> v,
                       expires |-> expiry(ttl, t)]]

(* Mutant: an entry never expires. *)
expired_never(e, t) == FALSE

expired(e, t) == \E x \in e.expires : t > x

(* The key holds a value that has not expired. *)
live(ch, k, t) == ch[k].present /\ ~expired(ch[k], t)

(* channel.get(key, default) at instant t *)
channel_get(ch, k, default, t) ==
    IF live(ch, k, t) THEN ch[k].value ELSE default

(* channel.exists(key) at instant t *)
channel_exists(ch, k, t) == live(ch, k, t)

(* What a handler returns. *)
Returned_value == scalar("result")

(* ---- parameters of a handler ---- *)

Values == {"10", "100"}

(* The parameters a declaration may have injected: ctx with
   inject_context=True. *)
Injectable == {"ctx"}

injected_object(p) == scalar("TaskExecutionContext")

(* Mutant: a channel value of the same name is taken before the bound one. *)
resolve_parameter_channel_first(p, inj, bnd, ch, t) ==
    IF p \in inj THEN injected_object(p)
    ELSE IF channel_exists(ch, p, t) THEN channel_get(ch, p, NoValue, t)
    ELSE IF p \in DOMAIN bnd THEN bnd[p]
    ELSE NoValue

(* Injection > Bound > Channel; a parameter found nowhere is left to the
   default of the function, None here. *)
resolve_parameter(p, inj, bnd, ch, t) ==
    IF p \in inj THEN injected_object(p)
    ELSE IF p \in DOMAIN bnd THEN bnd[p]
    ELSE IF channel_exists(ch, p, t) THEN channel_get(ch, p, NoValue, t)
    ELSE NoValue

resolve_parameters(inj, bnd, ch, t) ==
    [p \in ParamNames |-> resolve_parameter(p, inj, bnd, ch, t)]

(* The length of the list under the key, 0 if there is none. *)
list_length(ch, k, t) == IF live(ch, k, t) THEN Len(ch[k].value.items) ELSE 0

(* Mutant: the items of a list that has expired are kept by append. *)
channel_append_stale(ch, k, v, ttl, t) ==
    LET old == ch[k].value.items
        exp == IF ttl # NoTTL THEN expiry(ttl, t)
               ELSE IF live(ch, k, t) THEN ch[k].expires
               ELSE NoTTL
    IN  [ch EXCEPT ![k] = [present |-> TRUE,
                           value |-> [list |-> TRUE, items |-> Append(old, v)],
                           expires |-> exp]]

(* Mutant: append writes back a list that holds the new value alone. *)
channel_append_replaces(ch, k, v, ttl, t) ==
    [ch EXCEPT ![k] = [present |-> TRUE,
                       value |-> [list |-> TRUE, items |-> <<v>>],
                       expires |-> expiry(ttl, t)]]

(* channel.append(key, value, ttl): on a key that is absent or has expired the
   list starts empty; without ttl the expiry of the list stays as it is. *)
channel_append(ch, k, v, ttl, t) ==
    LET old == IF live(ch, k, t) THEN ch[k].value.items ELSE <<>>
        exp == IF ttl # NoTTL THEN expiry(ttl, t)
               ELSE IF live(ch, k, t) THEN ch[k].expires
               ELSE NoTTL
    IN  [ch EXCEPT ![k] = [present |-> TRUE,
                           value |-> [list |-> TRUE, items |-> Append(old, v)],
                           expires |-> exp]]

(* channel.prepend(key, value, ttl) *)
channel_prepend(ch, k, v, ttl, t) ==
    LET old == IF live(ch, k, t) THEN ch[k].value.items ELSE <<>>
        exp == IF ttl # NoTTL THEN expiry(ttl, t)
               ELSE IF live(ch, k, t) THEN ch[k].expires
               ELSE NoTTL
    IN  [ch EXCEPT ![k] = [present |-> TRUE,
                           value |-> [list |-> TRUE, items |-> <<v>> \o old],
                           expires |-> exp]]

(* channel.delete(key) *)
channel_delete(ch, k) == [ch EXCEPT ![k] = Absent]

(* A read past the expiry of the key removes the entry. *)
evict(ch, k, t) ==
    IF ch[k].present /\ expired(ch[k], t) THEN channel_delete(ch, k) ELSE ch

(* ---- RedisChannel: the same operations as commands to the server ---- *)

(* SET key value [EX ttl]: the value and the expiry are replaced. *)
redis_set(rs, k, v, ttl, t) ==
    [rs EXCEPT ![k] = [present |-> TRUE, value |-> v,
                       expires |-> expiry(ttl, t)]]

(* GET key: the server holds no expired key. *)
redis_get(rs, k, default) == IF rs[k].present THEN rs[k].value ELSE default

(* EXISTS key *)
redis_exists(rs, k) == rs[k].present

(* DEL key *)
redis_delete(rs, k) == [rs EXCEPT ![k] = Absent]

(* The expiry of the list after a push: EXPIRE key ttl if a ttl is given,
   else the expiry it had. *)
redis_push_expiry(rs, k, ttl, t) ==
    IF ttl # NoTTL THEN expiry(ttl, t) ELSE rs[k].expires

(* RPUSH key value *)
redis_rpush(rs, k, v, ttl, t) ==
    [rs EXCEPT ![k] = [present |-> TRUE,
                       value |-> [list |-> TRUE,
                                  items |-> Append(rs[k].value.items, v)],
                       expires |-> redis_push_expiry(rs, k, ttl, t)]]

(* LPUSH key value *)
redis_lpush(rs, k, v, ttl, t) ==
    [rs EXCEPT ![k] = [present |-> TRUE,
                       value |-> [list |-> TRUE,
                                  items |-> <<v>> \o rs[k].value.items],
                       expires |-> redis_push_expiry(rs, k, ttl, t)]]

(* The server removes the keys whose expiry has passed. *)
redis_expire(rs, t) ==
    [k \in DOMAIN rs |-> IF rs[k].present /\ expired(rs[k], t)
                         THEN Absent
                         ELSE rs[k]]

(* The record of a call on the channel: its arguments (arg is the value
   written, or the default of get), what it returned (ret for get, found
   for exists), and whether it met an expired entry. *)
Call(op, k, arg, ttl, ret, found, met) ==
    [op |-> op, key |-> k, arg |-> arg, ttl |-> ttl, ret |-> ret,
     found |-> found, expired |-> met]

NoCall == Call(None, None, NoValue, NoTTL, NoValue, FALSE, FALSE)

NoParams == [p \in {} |-> NoValue]

(* No call of next_task: made tells a call from none, given holds the goto
   argument if one was passed, existing whether the task was in the graph. *)
NoNextTask == [made |-> FALSE, given |-> {}, existing |-> FALSE]

(* The record of the last step: its kind, its task, what it appended to the
   queue, how many control directives the handler had issued, and what the
   group had reported. *)
StepG(kind, task, enq, n, report) ==
    [kind |-> kind, task |-> task, enq |-> enq, issued |-> n,
     report |-> report, requested |-> FALSE, call |-> NoNextTask]

(* The record of a call of next_task. *)
Called(step, given, existing) ==
    [step EXCEPT !.call = [made |-> TRUE, given |-> given,
                           existing |-> existing]]

(* The record of the end of an execution, with whether its handler had
   called checkpoint(), and the call of next_task it had made last. *)
Ended(step, requested) ==
    [step EXCEPT !.requested = requested,
                 !.call = IF last.kind = "next_task"
                          THEN last.call
                          ELSE NoNextTask]

Step(kind, task, enq) == StepG(kind, task, enq, 0, NoReport)

(* ---- TaskGraph ---- *)

predecessors(ns, sc, n) == {m \in ns : n \in Range(sc[m])}

(* Mutant: a node added again takes the place of the first one, which
   loses its edges, before the error is raised. *)
graph_add_node_replaces(ns, sc, n) ==
    IF n \in ns
    THEN [error |-> "DuplicateIdError", nodes |-> ns,
          succ |-> [sc EXCEPT ![n] = <<>>]]
    ELSE [error |-> None, nodes |-> ns \cup {n}, succ |-> sc]

(* TaskGraph.add_node(node): the error raised, if any, and the graph after
   the call. *)
graph_add_node(ns, sc, n) ==
    IF n \in ns
    THEN [error |-> "DuplicateIdError", nodes |-> ns, succ |-> sc]
    ELSE [error |-> None, nodes |-> ns \cup {n}, succ |-> sc]

(* TaskGraph.add_edge(from, to) *)
graph_add_edge(ns, sc, from, to) ==
    IF from \notin ns \/ to \notin ns
    THEN [error |-> "UnknownNodeError", nodes |-> ns, succ |-> sc]
    ELSE [error |-> None, nodes |-> ns,
          succ |-> [sc EXCEPT ![from] = Append(@, to)]]

(* Mutant: with several candidates one of them is taken. *)
resolve_start_any(ns, sc) ==
    LET found == {n \in ns : predecessors(ns, sc, n) = {}}
    IN  IF found # {}
        THEN [ok |-> TRUE, node |-> CHOOSE n \in found : TRUE]
        ELSE [ok |-> FALSE, node |-> None]

resolve_start(ns, sc) ==
    LET found == {n \in ns : predecessors(ns, sc, n) = {}}
    IN  IF Cardinality(found) = 1
        THEN [ok |-> TRUE, node |-> CHOOSE n \in found : TRUE]
        ELSE [ok |-> FALSE, node |-> None]

(* ---- initial state: a workflow has been defined, nothing has run ---- *)

(* The context of a run that has not started. *)
InitContext ==
    /\ status = "created"
    /\ error = [type |-> None, reason |-> None]
    /\ queue = <<>>
    /\ executing = None
    /\ completed = {}
    /\ cycle_counts = [t \in Tasks |-> 0]
    /\ retry_count = [t \in Tasks |-> 0]
    /\ steps = 0
    /\ directives = NoDirectives
    /\ checkpoint_requested = FALSE
    /\ ckpt = NoCheckpoint
    /\ nckpt = 0
    /\ resumes = 0
    /\ barrier = [n |-> 0, count |-> 0]
    /\ work = <<>>
    /\ worker = [w \in Workers |-> {}]
    /\ outcome = [b \in BranchIds |-> None]
    /\ waiting = FALSE
    /\ joinEnq = 0
    /\ last = Step("init", None, <<>>)
    /\ feedback = NoFeedback
    /\ redis = EmptyChannel
    /\ reply = NoCall
    /\ collected = {}

(* One application: the workers are started with the key_prefix of the
   producer, on a Redis server that holds nothing yet. *)
InitDeploy ==
    /\ keyspace = [key \in RedisKeys |-> <<>>]
    /\ worker_prefix = [w \in Workers |-> "app_a:workflows"]
    /\ lifecycle = [w \in Workers |-> Started]

(* A run without initial_channel, of tasks without bound parameters. *)
InitData ==
    /\ channel = EmptyChannel
    /\ now = 0
    /\ called = NoCall
    /\ bound = NoParams
    /\ injection = {}
    /\ resolved = NoParams

Init ==
    /\ \E i \in 1..Len(Graphs) :
         /\ nodes = Graphs[i].nodes
         /\ succ = Graphs[i].succ
         /\ members = [t \in Tasks |->
                          IF t \in Graphs[i].group THEN BranchIds ELSE {}]
         /\ policy \in IF Graphs[i].group = {}
                       THEN {CHOOSE p \in Policies : p.kind = "Strict"}
                       ELSE Policies
    /\ start_node \in {None, "a"}
    /\ InitContext
    /\ InitDeploy
    /\ InitData

(* Every graph over up to three nodes, edges to itself included, the
   successors of a node in the order of TaskOrder; no start node given. *)
StartNodes == {"a", "b", "c"}
TaskOrder == <<"a", "b", "c", "e", "g">>

InOrder(S) == SelectSeq(TaskOrder, LAMBDA x : x \in S)

InitAnyGraph ==
    /\ nodes \in SUBSET StartNodes
    /\ \E edges \in SUBSET (StartNodes \X StartNodes) :
         /\ edges \subseteq nodes \X nodes
         /\ succ = [t \in Tasks |-> InOrder({m \in nodes : <<t, m>> \in edges})]
    /\ members = [t \in Tasks |-> {}]
    /\ policy = CHOOSE p \in Policies : p.kind = "Strict"
    /\ start_node = None
    /\ InitContext
    /\ InitDeploy
    /\ InitData

(* ---- wf.execute(start_node) ---- *)

(* Mutant: the nodes without predecessor are enqueued before the ambiguity
   is reported. *)
execute_reports_late ==
    /\ status = "created"
    /\ LET r == IF start_node = None
                THEN resolve_start(nodes, succ)
                ELSE [ok |-> start_node \in nodes, node |-> start_node]
       IN  IF r.ok
           THEN /\ status' = "running"
                /\ queue' = <<r.node>>
                /\ error' = error
                /\ last' = Step("execute", None, <<r.node>>)
           ELSE /\ status' = "config_error"
                /\ queue' = InOrder({n \in nodes :
                                        predecessors(nodes, succ, n) = {}})
                /\ error' = [type |-> "GraphCompilationError", reason |-> None]
                /\ last' = Step("execute", None, <<>>)
    /\ UNCHANGED <<graphVars, executing, completed, cycle_counts, retry_count,
                   steps, directives, checkpoint_requested, ckptVars,
                   groupVars, dataVars,
                   envVars>>

execute ==
    /\ status = "created"
    /\ LET r == IF start_node = None
                THEN resolve_start(nodes, succ)
                ELSE [ok |-> start_node \in nodes, node |-> start_node]
       IN  IF r.ok
           THEN /\ status' = "running"
                /\ queue' = <<r.node>>
                /\ error' = error
                /\ last' = Step("execute", None, <<r.node>>)
           ELSE /\ status' = "config_error"
                /\ queue' = queue
                /\ error' = [type |-> "GraphCompilationError", reason |-> None]
                /\ last' = Step("execute", None, <<>>)
    /\ UNCHANGED <<graphVars, executing, completed, cycle_counts, retry_count,
                   steps, directives, checkpoint_requested, ckptVars,
                   groupVars, dataVars,
                   envVars>>

(* ---- engine loop: get_next_task() ---- *)

get_next_task ==
    /\ status = "running"
    /\ executing = None
    /\ IF queue = <<>>
       THEN /\ status' = "done"
            /\ last' = Step("finish", None, <<>>)
            /\ UNCHANGED <<queue, executing, steps>>
       ELSE /\ steps < MaxSteps
            /\ executing' = Head(queue)
            /\ queue' = Tail(queue)
            /\ steps' = steps + 1
            /\ status' = status
            /\ last' = Step("dequeue", Head(queue), <<>>)
    /\ UNCHANGED <<graphVars, error, completed, cycle_counts, retry_count,
                   directives, checkpoint_requested, ckptVars, groupVars,
                   dataVars,
                   envVars>>

(* ---- TaskExecutionContext: what a running handler may call ---- *)

(* The handler of t is running, and not blocked in request_feedback. *)
InHandler(t) ==
    /\ status = "running"
    /\ executing = t
    /\ t # None
    /\ members[t] = {}
    /\ feedback.state # "waiting"

issued(d) ==
    (IF d.cancel # None THEN 1 ELSE 0) + (IF d.terminate THEN 1 ELSE 0)
    + (IF d.jump # None THEN 1 ELSE 0) + (IF d.loop THEN 1 ELSE 0)

HasContext(t) ==
    /\ InHandler(t)
    /\ t \in Injected

MayIssue(t) ==
    /\ HasContext(t)
    /\ issued(directives) < MaxDirectives

(* Mutant: checkpoint() writes the checkpoint at once, inside the handler. *)
checkpoint_at_once(t) ==
    /\ HasContext(t)
    /\ ~checkpoint_requested
    /\ checkpoint_requested' = TRUE
    /\ ckpt' = [task |-> t, completed_tasks |-> completed,
                cycle_counts |-> cycle_counts, pending_tasks |-> queue,
                executing |-> executing, steps |-> steps,
                channel |-> channel, retry_count |-> retry_count,
                was_pending |-> queue, enqueued |-> <<>>]
    /\ nckpt' = nckpt + 1
    /\ UNCHANGED <<last, graphVars, status, error, queue, executing,
                   completed, cycle_counts, retry_count, steps, directives,
                   resumes, groupVars, dataVars,
                   envVars>>

(* ctx.checkpoint(): sets the flag only. *)
checkpoint(t) ==
    /\ HasContext(t)
    /\ ~checkpoint_requested
    /\ checkpoint_requested' = TRUE
    /\ UNCHANGED <<last, graphVars, status, error, queue, executing, completed,
                   cycle_counts, retry_count, steps, directives, ckptVars,
                   groupVars, dataVars,
                   envVars>>

next_task(t, target, goto) ==
    /\ MayIssue(t)
    /\ directives.jump = None
    /\ target \in nodes
    /\ directives' = [directives EXCEPT !.jump = target, !.goto = goto]
    /\ UNCHANGED <<last, graphVars, status, error, queue, executing, completed,
                   cycle_counts, retry_count, steps, checkpoint_requested,
                   ckptVars, groupVars, dataVars,
                   envVars>>

next_iteration(t) ==
    /\ MayIssue(t)
    /\ ~directives.loop
    /\ cycle_counts[t] < MaxCycles
    /\ directives' = [directives EXCEPT !.loop = TRUE]
    /\ UNCHANGED <<last, graphVars, status, error, queue, executing, completed,
                   cycle_counts, retry_count, steps, checkpoint_requested,
                   ckptVars, groupVars, dataVars,
                   envVars>>

(* The message of terminate_workflow is only logged. *)
terminate_workflow(t) ==
    /\ MayIssue(t)
    /\ ~directives.terminate
    /\ directives' = [directives EXCEPT !.terminate = TRUE]
    /\ UNCHANGED <<last, graphVars, status, error, queue, executing, completed,
                   cycle_counts, retry_count, steps, checkpoint_requested,
                   ckptVars, groupVars, dataVars,
                   envVars>>

cancel_workflow(t, reason) ==
    /\ MayIssue(t)
    /\ directives.cancel = None
    /\ directives' = [directives EXCEPT !.cancel = reason]
    /\ UNCHANGED <<last, graphVars, status, error, queue, executing, completed,
                   cycle_counts, retry_count, steps, checkpoint_requested,
                   ckptVars, groupVars, dataVars,
                   envVars>>

(* The states of the state machine a handler keeps in the channel. *)
States == {"VALIDATED", "PAID"}

StateKey == "k"

(* channel.set("order_state", state) in the handler of t *)
store_state(t, state) ==
    /\ HasContext(t)
    /\ channel' = channel_set(channel, StateKey, scalar(state), NoTTL, now)
    /\ UNCHANGED <<last, graphVars, status, error, queue, executing, completed,
                   cycle_counts, retry_count, steps, directives,
                   checkpoint_requested, ckptVars, groupVars, now, called,
                   paramVars, envVars>>

(* ---- engine: what follows the handler's return ---- *)

(* Normal flow: the successors, unless the handler asked for one more
   iteration of the task. *)
normal_flow(d) == IF d.loop THEN "loop" ELSE "normal"

(* Mutant: terminate_workflow is looked at before cancel_workflow. *)
control_flow_terminate_first(d) ==
    IF d.terminate THEN "terminate"
    ELSE IF d.cancel # None THEN "cancel"
    ELSE IF d.jump # None THEN "jump"
    ELSE normal_flow(d)

(* The control that decides the outcome of the task, by priority. *)
control_flow(d) ==
    IF d.cancel # None THEN "cancel"
    ELSE IF d.terminate THEN "terminate"
    ELSE IF d.jump # None THEN "jump"
    ELSE normal_flow(d)

(* Mutant: the task is marked completed whatever the control. *)
task_completes_always(c) == TRUE

(* Mutant: a task that ends the run is not marked completed. *)
task_completes_unless_stopped(c) == c \notin {"cancel", "terminate"}

(* Whether the task is marked completed under that control. *)
task_completes(c) == c # "cancel"

(* Mutant: only the first successor is enqueued. *)
enqueue_first_successor(t) ==
    IF succ[t] = <<>> THEN <<>> ELSE <<Head(succ[t])>>

(* Mutant: what follows the successors is enqueued along with them, ahead
   of them. *)
enqueue_descendants_first(t) ==
    LET after == {n \in nodes : \E m \in Range(succ[t]) : n \in Range(succ[m])}
    IN  InOrder(after) \o succ[t]

(* The edges of the workflow process >> continuation, as a >> b, as they
   are declared when the workflow is built. *)
DeclaredSucc == [NoSucc EXCEPT !["a"] = <<"b">>]

(* Mutant: the successors are those the graph had when it was built. *)
enqueue_declared_successors(t) == DeclaredSucc[t]

(* Normal flow: all the successors of the task, in graph order. *)
enqueue_successors(t) == succ[t]

(* Mutant: the goto flag is ignored, the successors always follow. *)
enqueue_next_task_no_skip(t, target, goto) ==
    <<target>> \o enqueue_successors(t)

(* Mutant: the successors are enqueued ahead of the target. *)
enqueue_next_task_last(t, target, goto) ==
    IF goto THEN <<target>> ELSE enqueue_successors(t) \o <<target>>

(* next_task(target, goto): the target, and with goto the successors are
   skipped. *)
enqueue_next_task(t, target, goto) ==
    IF goto THEN <<target>> ELSE <<target>> \o enqueue_successors(t)

(* Mutant: the iteration is enqueued and the successors as well. *)
enqueue_iteration_and_successors(t) == <<t>> \o enqueue_successors(t)

(* next_iteration(): the task itself, for one more cycle. *)
enqueue_iteration(t) == <<t>>

increment_cycle(cycles, t) == [cycles EXCEPT ![t] = @ + 1]

(* What the engine appends to the queue under the deciding control. *)
to_enqueue(t, d) ==
    LET c == control_flow(d)
    IN  IF c = "jump" THEN enqueue_next_task(t, d.jump, d.goto)
        ELSE IF c = "loop" THEN enqueue_iteration(t)
        ELSE IF c = "normal" THEN enqueue_successors(t)
        ELSE <<>>

(* Mutant: the successors are marked completed along with the task. *)
mark_completed_with_successors(done, t) == done \cup {t} \cup Range(succ[t])

mark_task_completed(done, t) == done \cup {t}

(* Mutant: the checkpoint holds the queue as it was before the engine
   enqueued what follows the task. *)
create_checkpoint_early(t, done, cycles, before, enq, running, n, chan, retries) ==
    [task |-> t, completed_tasks |-> done, cycle_counts |-> cycles,
     pending_tasks |-> before, executing |-> running, steps |-> n,
     channel |-> chan, retry_count |-> retries, was_pending |-> before,
     enqueued |-> enq]

(* CheckpointManager.create_checkpoint(context): the state written for the
   context as it is after task t. was_pending and enqueued are not part of
   the files: they remember the queue as t ended and what t's completion
   appended to it. *)
create_checkpoint(t, done, cycles, before, enq, running, n, chan, retries) ==
    [task |-> t, completed_tasks |-> done, cycle_counts |-> cycles,
     pending_tasks |-> before \o enq, executing |-> running, steps |-> n,
     channel |-> chan, retry_count |-> retries, was_pending |-> before,
     enqueued |-> enq]

(* The return value of t is stored in the channel under its result key. *)
store_result(ch, t, t0) ==
    channel_set(ch, result_key(t), Returned_value, NoTTL, t0)

(* Mutant: a checkpoint that was requested is written however the
   execution ends. *)
checkpoint_due_whenever_requested(requested, c) == requested

(* Engine creates checkpoint after task completes successfully. *)
checkpoint_due(requested, c) == requested /\ task_completes(c)

(* Mutant: the request stays set when the execution has ended. *)
consume_request_never(requested) == requested

(* The engine consumes the request when the handler has ended, before the
   next task is taken from the queue: whatever it was, it is clear then. *)
consume_request(requested) == FALSE

(* The handler of t returns a value. *)
task_returns(t) ==
    /\ InHandler(t)
    /\ LET c == control_flow(directives)
           enq == to_enqueue(t, directives)
           done == IF task_completes(c)
                   THEN mark_task_completed(completed, t)
                   ELSE completed
           cycles == IF c = "loop"
                     THEN increment_cycle(cycle_counts, t)
                     ELSE cycle_counts
           chan == IF task_completes(c)
                   THEN store_result(channel, t, now)
                   ELSE channel
       IN  /\ completed' = done
           /\ channel' = chan
           /\ queue' = queue \o enq
           /\ cycle_counts' = cycles
           /\ status' = IF c = "cancel" THEN "canceled"
                        ELSE IF c = "terminate" THEN "done"
                        ELSE status
           /\ error' = IF c = "cancel"
                       THEN [type |-> "GraflowWorkflowCanceledError",
                             reason |-> directives.cancel]
                       ELSE error
           /\ IF checkpoint_due(checkpoint_requested, c)
              THEN /\ ckpt' = create_checkpoint(t, done, cycles, queue, enq,
                                                None, steps, chan,
                                                [retry_count EXCEPT ![t] = 0])
                   /\ nckpt' = nckpt + 1
              ELSE UNCHANGED <<ckpt, nckpt>>
           /\ last' = Ended(StepG(c, t, enq, issued(directives), NoReport),
                            checkpoint_requested)
    /\ executing' = None
    /\ directives' = NoDirectives
    /\ checkpoint_requested' = consume_request(checkpoint_requested)
    /\ retry_count' = [retry_count EXCEPT ![t] = 0]
    /\ UNCHANGED <<graphVars, steps, resumes, groupVars, now, called,
                   paramVars,
                   envVars>>

(* The tasks with a retry configuration of max_attempts = MaxAttempts; a
   task without one is attempted once. *)
Retried == {"a", "e"}

max_attempts(t) == IF t \in Retried THEN MaxAttempts ELSE 1

(* Mutant: one more attempt than max_attempts is allowed. *)
attempts_remain_one_more(faulted, max) == faulted < max

(* After one more fault, faulted + 1 attempts are used up of max. *)
attempts_remain(faulted, max) == faulted + 1 < max

(* The handler of t raises: retry while attempts remain, else fatal. *)
task_raises(t) ==
    /\ InHandler(t)
    /\ IF attempts_remain(retry_count[t], max_attempts(t))
       THEN /\ retry_count' = [retry_count EXCEPT ![t] = @ + 1]
            /\ queue' = queue \o <<t>>
            /\ status' = status
            /\ error' = error
            /\ last' = Ended(Step("retry", t, <<t>>), checkpoint_requested)
       ELSE /\ retry_count' = retry_count
            /\ queue' = queue
            /\ status' = "failed"
            /\ error' = [type |-> "TaskError", reason |-> None]
            /\ last' = Ended(Step("fatal", t, <<>>), checkpoint_requested)
    /\ executing' = None
    /\ directives' = NoDirectives
    /\ checkpoint_requested' = consume_request(checkpoint_requested)
    /\ UNCHANGED <<graphVars, completed, cycle_counts, steps, ckptVars,
                   groupVars, dataVars,
                   envVars>>

(* ---- human in the loop: ctx.request_feedback(..., timeout) ---- *)

(* The handler of t asks for feedback and blocks, unless the feedback asked
   for by an earlier execution of t has been provided meanwhile. *)
request_feedback(t) ==
    /\ HasContext(t)
    /\ feedback.state \in {"none", "timeout", "provided"}
    /\ feedback' = IF feedback.state = "provided" /\ feedback.task = t
                   THEN [feedback EXCEPT !.state = "responded"]
                   ELSE [task |-> t, state |-> "waiting", checkpoint |-> {}]
    /\ UNCHANGED <<last, graphVars, status, error, queue, executing, completed,
                   cycle_counts, retry_count, steps, directives,
                   checkpoint_requested, ckptVars, groupVars, dataVars,
                   remoteVars, deployVars,
                   branchVars>>

(* The user answers: within the timeout the handler goes on with the
   response; after it the response is kept for the resumed run. *)
provide_feedback ==
    /\ feedback.state \in {"waiting", "timeout"}
    /\ feedback' = [feedback EXCEPT !.state = IF @ = "waiting"
                                              THEN "responded"
                                              ELSE "provided"]
    /\ UNCHANGED <<last, graphVars, status, error, queue, executing, completed,
                   cycle_counts, retry_count, steps, directives,
                   checkpoint_requested, ckptVars, groupVars, dataVars,
                   remoteVars, deployVars,
                   branchVars>>

(* Mutant: the task that timed out is left out of the pending tasks. *)
pending_at_timeout_without_task(t, q) == q

(* The tasks pending when the request of t times out: t itself, which had
   been taken from the head of the queue, and the queue. *)
pending_at_timeout(t, q) == <<t>> \o q

(* Mutant: the timeout is handled as a cancellation of the run. *)
feedback_timeout_cancels(t) ==
    /\ status = "running"
    /\ executing = t
    /\ feedback.state = "waiting"
    /\ feedback.task = t
    /\ feedback' = [feedback EXCEPT !.state = "timeout"]
    /\ status' = "canceled"
    /\ error' = [type |-> "GraflowWorkflowCanceledError", reason |-> None]
    /\ executing' = None
    /\ directives' = NoDirectives
    /\ checkpoint_requested' = FALSE
    /\ last' = Step("feedback_timeout", t, <<>>)
    /\ UNCHANGED <<graphVars, queue, completed, cycle_counts, retry_count,
                   steps, ckptVars, groupVars, dataVars,
                   remoteVars, deployVars,
                   branchVars>>

(* No response within the timeout: the checkpoint is created automatically
   and the workflow pauses. *)
feedback_timeout(t) ==
    /\ status = "running"
    /\ executing = t
    /\ feedback.state = "waiting"
    /\ feedback.task = t
    /\ ckpt' = create_checkpoint(t, completed, cycle_counts,
                                 pending_at_timeout(t, queue), <<>>, None,
                                 steps, channel, retry_count)
    /\ nckpt' = nckpt + 1
    /\ feedback' = [feedback EXCEPT !.state = "timeout",
                                    !.checkpoint = {nckpt + 1}]
    /\ status' = "paused"
    /\ executing' = None
    /\ directives' = NoDirectives
    /\ checkpoint_requested' = FALSE
    /\ last' = Step("feedback_timeout", t, <<>>)
    /\ UNCHANGED <<graphVars, error, queue, completed, cycle_counts,
                   retry_count, steps, resumes, groupVars, dataVars,
                   remoteVars, deployVars,
                   branchVars>>

(* ---- GroupExecutor and task workers: BSP execution of a ParallelGroup ---- *)

InGroup(g) ==
    /\ status = "running"
    /\ executing = g
    /\ g # None
    /\ members[g] # {}

branch_order(bs) ==
    [i \in 1..Cardinality(bs) |->
        CHOOSE b \in bs : Cardinality({x \in bs : x < b}) = i - 1]

(* create_barrier(n), then dispatch(task_1) .. dispatch(task_n) *)
dispatch(g) ==
    /\ InGroup(g)
    /\ ~waiting
    /\ barrier' = [n |-> Cardinality(members[g]), count |-> 0]
    /\ work' = branch_order(members[g])
    /\ outcome' = [b \in members[g] |-> None]
    /\ waiting' = TRUE
    /\ joinEnq' = 0
    /\ last' = Step("dispatch", g, <<>>)
    /\ UNCHANGED <<graphVars, status, error, queue, executing, completed,
                   cycle_counts, retry_count, steps, directives,
                   checkpoint_requested, ckptVars, worker, dataVars,
                   envVars>>

(* Mutant: the head of the queue is read and left in the queue. *)
dequeue_peek(q) == [item |-> Head(q), rest |-> q]

(* The dequeue of Redis: the head is taken and removed in one operation. *)
dequeue(q) == [item |-> Head(q), rest |-> Tail(q)]

(* The polling loop of a worker goes on while it has got no signal. *)
polls(l) == l.state = "running"

(* A worker polls the Redis queue. *)
worker_dequeue(w) ==
    /\ polls(lifecycle[w])
    /\ worker[w] = {}
    /\ work # <<>>
    /\ worker' = [worker EXCEPT ![w] = {dequeue(work).item}]
    /\ work' = dequeue(work).rest
    /\ UNCHANGED <<graphVars, status, error, queue, executing, completed,
                   cycle_counts, retry_count, steps, directives,
                   checkpoint_requested, ckptVars, barrier, outcome, waiting,
                   joinEnq, last, dataVars,
                   envVars>>

(* The worker has executed its branch: it records the result, INCR barrier. *)
worker_finish(w, ok) ==
    /\ lifecycle[w].state # "stopped"
    /\ worker[w] # {}
    /\ outcome' = [b \in DOMAIN outcome |->
                      IF b \in worker[w]
                      THEN IF ok THEN "ok" ELSE "failed"
                      ELSE outcome[b]]
    /\ barrier' = [barrier EXCEPT !.count = @ + 1]
    /\ worker' = [worker EXCEPT ![w] = {}]
    /\ UNCHANGED <<graphVars, status, error, queue, executing, completed,
                   cycle_counts, retry_count, steps, directives,
                   checkpoint_requested, ckptVars, work, waiting, joinEnq,
                   last, dataVars,
                   envVars>>

(* SIGTERM or SIGINT is delivered to worker w. *)
signal(w) ==
    /\ lifecycle[w].state = "running"
    /\ lifecycle' = [lifecycle EXCEPT ![w] =
                        [state |-> "stopping",
                         deadline |-> {now + GracefulShutdownTimeout}]]
    /\ UNCHANGED <<graphVars, status, error, queue, executing, completed,
                   cycle_counts, retry_count, steps, directives,
                   checkpoint_requested, ckptVars, groupVars, last, dataVars,
                   feedback, remoteVars, keyspace, worker_prefix,
                   branchVars>>

(* Mutant: the worker stops on the signal, whatever it is executing. *)
may_stop_at_once(l, inflight, t) == l.state = "stopping"

(* A worker that is shutting down stops when it has no task in flight, or
   when graceful_shutdown_timeout has passed since the signal. *)
may_stop(l, inflight, t) ==
    /\ l.state = "stopping"
    /\ inflight = {} \/ \E d \in l.deadline : t >= d

(* The worker process exits; a task still in flight is given up. *)
worker_exit(w) ==
    /\ may_stop(lifecycle[w], worker[w], now)
    /\ lifecycle' = [lifecycle EXCEPT ![w].state = "stopped"]
    /\ UNCHANGED <<graphVars, status, error, queue, executing, completed,
                   cycle_counts, retry_count, steps, directives,
                   checkpoint_requested, ckptVars, groupVars, last, dataVars,
                   feedback, remoteVars, keyspace, worker_prefix,
                   branchVars>>

(* Mutant: the barrier opens one report early. *)
barrier_reached_early(count, n) == count >= n - 1

(* The barrier counter, INCR-ed by the workers, has reached n. *)
barrier_reached(count, n) == count >= n

(* Mutant: wait_barrier has no timeout. *)
barrier_released_by_count_only(count, n, timedOut) == barrier_reached(count, n)

(* wait_barrier stops blocking: the counter reached n, or the timeout. *)
barrier_released(count, n, timedOut) == barrier_reached(count, n) \/ timedOut

(* Mutant: Strict is satisfied by a majority of the branches. *)
group_succeeds_strict_majority(p, succeeded, all) ==
    IF p.kind = "Strict"
    THEN 2 * Cardinality(succeeded) > Cardinality(all)
    ELSE IF p.kind = "BestEffort" THEN TRUE
    ELSE IF p.kind = "AtLeastN" THEN Cardinality(succeeded) >= p.min
    ELSE p.ids \subseteq succeeded

(* Mutant: BestEffort still wants one branch to have succeeded. *)
group_succeeds_best_effort_one(p, succeeded, all) ==
    IF p.kind = "Strict" THEN succeeded = all
    ELSE IF p.kind = "BestEffort" THEN succeeded # {}
    ELSE IF p.kind = "AtLeastN" THEN Cardinality(succeeded) >= p.min
    ELSE p.ids \subseteq succeeded

(* Mutant: AtLeastN wants more than min_success branches. *)
group_succeeds_more_than_n(p, succeeded, all) ==
    IF p.kind = "Strict" THEN succeeded = all
    ELSE IF p.kind = "BestEffort" THEN TRUE
    ELSE IF p.kind = "AtLeastN" THEN Cardinality(succeeded) > p.min
    ELSE p.ids \subseteq succeeded

(* Mutant: Critical is satisfied by one of the critical branches. *)
group_succeeds_any_critical(p, succeeded, all) ==
    IF p.kind = "Strict" THEN succeeded = all
    ELSE IF p.kind = "BestEffort" THEN TRUE
    ELSE IF p.kind = "AtLeastN" THEN Cardinality(succeeded) >= p.min
    ELSE p.ids = {} \/ p.ids \cap succeeded # {}

(* The policy of the group: Strict unless one was configured. *)
execution_policy(p) ==
    IF p.kind = None THEN [kind |-> "Strict", min |-> 0, ids |-> {}] ELSE p

(* The group policy, over the branches that succeeded. *)
group_succeeds(p, succeeded, all) ==
    IF p.kind = "Strict" THEN succeeded = all
    ELSE IF p.kind = "BestEffort" THEN TRUE
    ELSE IF p.kind = "AtLeastN" THEN Cardinality(succeeded) >= p.min
    ELSE p.ids \subseteq succeeded

(* The producer leaves wait_barrier, evaluates the policy, goes on. *)
wait_barrier(g, timedOut) ==
    /\ InGroup(g)
    /\ waiting
    /\ barrier_released(barrier.count, barrier.n, timedOut)
    /\ LET seen == {b \in members[g] : outcome[b] # None}
           ok == {b \in members[g] : outcome[b] = "ok"}
           report == [seen |-> seen, ok |-> ok,
                      timeout |-> timedOut]
       IN  IF group_succeeds(execution_policy(policy), ok, members[g])
           THEN /\ completed' = mark_task_completed(completed, g)
                /\ queue' = queue \o succ[g]
                /\ joinEnq' = joinEnq + 1
                /\ status' = status
                /\ error' = error
                /\ last' = StepG("join", g, succ[g], 0, report)
           ELSE /\ status' = "failed"
                /\ error' = [type |-> "ParallelGroupError", reason |-> None]
                /\ last' = StepG("group_failed", g, <<>>, 0, report)
                /\ UNCHANGED <<completed, queue, joinEnq>>
    /\ waiting' = FALSE
    /\ executing' = None
    /\ UNCHANGED <<graphVars, cycle_counts, retry_count, steps, directives,
                   checkpoint_requested, ckptVars, barrier, work, worker,
                   outcome, dataVars,
                   envVars>>

(* ---- CheckpointManager.resume_from_checkpoint(path) ---- *)

(* Mutant: the task that asked for the checkpoint is queued again. *)
requeue_with_task(c) == <<c.task>> \o c.pending_tasks

(* Re-queue pending_tasks from .state.json *)
requeue_pending(c) == c.pending_tasks

(* Mutant: the pending task specs start again with a retry count of 0. *)
restore_retry_count_zero(c) == [t \in Tasks |-> 0]

(* The retry counts of the TaskSpecs in pending_tasks of .state.json *)
restore_retry_count(c) == c.retry_count

resume_from_checkpoint ==
    /\ ckpt.task # None
    /\ executing = None
    /\ resumes < MaxResumes
    /\ resumes' = resumes + 1
    /\ status' = "running"
    /\ error' = [type |-> None, reason |-> None]
    /\ completed' = ckpt.completed_tasks
    /\ cycle_counts' = ckpt.cycle_counts
    /\ queue' = requeue_pending(ckpt)
    /\ steps' = ckpt.steps
    /\ executing' = None
    /\ directives' = NoDirectives
    /\ checkpoint_requested' = FALSE
    /\ retry_count' = restore_retry_count(ckpt)
    /\ barrier' = [n |-> 0, count |-> 0]
    /\ work' = <<>>
    /\ worker' = [w \in Workers |-> {}]
    /\ outcome' = [b \in BranchIds |-> None]
    /\ waiting' = FALSE
    /\ joinEnq' = 0
    /\ channel' = ckpt.channel
    /\ last' = Step("resume", ckpt.task, requeue_pending(ckpt))
    /\ UNCHANGED <<graphVars, ckpt, nckpt, now, called, paramVars,
                   envVars>>

Next ==
    \/ execute
    \/ get_next_task
    \/ \E t \in Tasks : checkpoint(t)
    \/ \E t \in Tasks, target \in Tasks, goto \in BOOLEAN :
         next_task(t, target, goto)
    \/ \E t \in Tasks : next_iteration(t)
    \/ \E t \in Tasks : terminate_workflow(t)
    \/ \E t \in Tasks, reason \in Reasons : cancel_workflow(t, reason)
    \/ \E t \in Tasks : task_returns(t)
    \/ \E t \in Tasks : task_raises(t)
    \/ resume_from_checkpoint
    \/ \E g \in Tasks : dispatch(g)
    \/ \E w \in Workers : worker_dequeue(w)
    \/ \E w \in Workers, ok \in BOOLEAN : worker_finish(w, ok)
    \/ \E g \in Tasks, timedOut \in BOOLEAN : wait_barrier(g, timedOut)

Spec == Init /\ [][Next]_vars

(* ---- building the graph ---- *)

(* A task instance with id n is created in the workflow. *)
add_node(n) ==
    /\ status = "created"
    /\ LET r == graph_add_node(nodes, succ, n)
       IN  /\ nodes' = r.nodes
           /\ succ' = r.succ
           /\ error' = [type |-> r.error, reason |-> None]
    /\ last' = Step("add_node", n, <<>>)
    /\ UNCHANGED <<members, policy, start_node, status, queue, executing,
                   completed, cycle_counts, retry_count, steps, directives,
                   checkpoint_requested, ckptVars, groupVars, dataVars,
                   envVars>>

(* from >> to; an edge is recorded once. *)
add_edge(from, to) ==
    /\ status = "created"
    /\ to \notin Range(succ[from])
    /\ LET r == graph_add_edge(nodes, succ, from, to)
       IN  /\ nodes' = r.nodes
           /\ succ' = r.succ
           /\ error' = [type |-> r.error, reason |-> None]
    /\ last' = Step("add_edge", from, <<to>>)
    /\ UNCHANGED <<members, policy, start_node, status, queue, executing,
                   completed, cycle_counts, retry_count, steps, directives,
                   checkpoint_requested, ckptVars, groupVars, dataVars,
                   envVars>>

(* The workflow context has just been entered: an empty graph. *)
InitGraph ==
    /\ nodes = {}
    /\ succ = NoSucc
    /\ members = [t \in Tasks |-> {}]
    /\ policy = NoPolicy
    /\ start_node = None
    /\ InitContext
    /\ InitDeploy
    /\ InitData

NextGraph ==
    \/ \E n \in StartNodes : add_node(n)
    \/ \E from \in StartNodes, to \in StartNodes : add_edge(from, to)

SpecGraph == InitGraph /\ [][NextGraph]_vars

(* Start-node resolution alone, over every small graph. *)
NextStart == execute

SpecStart == InitAnyGraph /\ [][NextStart]_vars

(* ---- parameter resolution alone ---- *)

(* A task instance with any parameters bound at creation, a declaration
   with or without injection, a run started with any initial_channel. *)
InitParams ==
    /\ nodes = {"a"}
    /\ succ = NoSucc
    /\ members = [t \in Tasks |-> {}]
    /\ policy = CHOOSE p \in Policies : p.kind = "Strict"
    /\ start_node = None
    /\ InitContext
    /\ InitDeploy
    /\ \E given \in SUBSET ParamNames : \E vals \in [given -> Values] :
         channel = [k \in ChannelKeys |->
                       IF k \in given
                       THEN [present |-> TRUE, value |-> scalar(vals[k]),
                             expires |-> NoTTL]
                       ELSE Absent]
    /\ now = 0
    /\ called = NoCall
    /\ \E names \in SUBSET ParamNames : \E vals \in [names -> Values] :
         bound = [p \in names |-> scalar(vals[p])]
    /\ injection \in SUBSET Injectable
    /\ resolved = NoParams

(* The engine resolves the parameters of the task it is about to call. *)
resolve ==
    /\ last.kind = "init"
    /\ resolved' = resolve_parameters(injection, bound, channel, now)
    /\ last' = Step("resolve", "a", <<>>)
    /\ UNCHANGED <<graphVars, status, error, queue, executing, completed,
                   cycle_counts, retry_count, steps, directives,
                   checkpoint_requested, ckptVars, groupVars, chanVars, bound,
                   injection,
                   envVars>>

NextParams == resolve

SpecParams == InitParams /\ [][NextParams]_vars

(* ---- a sequential chain with a parallel group in it ---- *)

(* The workflow a >> (x1 | .. | xN) >> c, started at its head or, skipping
   a, at the group. *)
InitChain ==
    /\ nodes = {"a", "g", "c"}
    /\ succ = [NoSucc EXCEPT !["a"] = <<"g">>, !["g"] = <<"c">>]
    /\ members = [t \in Tasks |-> IF t = "g" THEN BranchIds ELSE {}]
    /\ policy \in Policies
    /\ start_node \in {None, "a", "g"}
    /\ InitContext
    /\ InitDeploy
    /\ InitData

(* The run of the chain by the engine; no handler calls next_task. *)
NextChain ==
    \/ execute
    \/ get_next_task
    \/ \E t \in Tasks : checkpoint(t)
    \/ \E t \in Tasks : next_iteration(t)
    \/ \E t \in Tasks : terminate_workflow(t)
    \/ \E t \in Tasks, reason \in Reasons : cancel_workflow(t, reason)
    \/ \E t \in Tasks : task_returns(t)
    \/ \E t \in Tasks : task_raises(t)
    \/ resume_from_checkpoint
    \/ \E g \in Tasks : dispatch(g)
    \/ \E w \in Workers : worker_dequeue(w)
    \/ \E w \in Workers, ok \in BOOLEAN : worker_finish(w, ok)
    \/ \E g \in Tasks, timedOut \in BOOLEAN : wait_barrier(g, timedOut)

SpecChain == InitChain /\ [][NextChain]_vars

(* ---- a run that is checkpointed, goes on, and is resumed ---- *)

(* The workflow b >> (e, a), a >> c, started at its head or at a; a takes
   checkpoints, e and a are retried. *)
InitResume ==
    /\ nodes = {"a", "b", "c", "e"}
    /\ succ = [NoSucc EXCEPT !["b"] = <<"e", "a">>, !["a"] = <<"c">>]
    /\ members = [t \in Tasks |-> {}]
    /\ policy = NoPolicy
    /\ start_node \in {None, "a"}
    /\ InitContext
    /\ InitDeploy
    /\ InitData

NextResume ==
    \/ execute
    \/ get_next_task
    \/ \E t \in Tasks : checkpoint(t)
    \/ \E t \in Tasks : next_iteration(t)
    \/ \E t \in Tasks, reason \in Reasons : cancel_workflow(t, reason)
    \/ \E t \in Tasks : task_returns(t)
    \/ \E t \in Tasks : task_raises(t)
    \/ resume_from_checkpoint

SpecResume == InitResume /\ [][NextResume]_vars

(* ---- a task that is a state machine ---- *)

(* The workflow a >> b; the handler of a keeps its state in the channel,
   takes checkpoints and asks for further iterations. *)
InitStateMachine ==
    /\ nodes = {"a", "b"}
    /\ succ = [NoSucc EXCEPT !["a"] = <<"b">>]
    /\ members = [t \in Tasks |-> {}]
    /\ policy = NoPolicy
    /\ start_node = None
    /\ InitContext
    /\ InitDeploy
    /\ InitData

NextStateMachine ==
    \/ execute
    \/ get_next_task
    \/ \E t \in Tasks, state \in States : store_state(t, state)
    \/ \E t \in Tasks : checkpoint(t)
    \/ \E t \in Tasks : next_iteration(t)
    \/ \E t \in Tasks : terminate_workflow(t)
    \/ \E t \in Tasks, reason \in Reasons : cancel_workflow(t, reason)
    \/ \E t \in Tasks : task_returns(t)
    \/ \E t \in Tasks : task_raises(t)
    \/ resume_from_checkpoint

SpecStateMachine == InitStateMachine /\ [][NextStateMachine]_vars

(* ---- a workflow with a task that asks for human feedback ---- *)

(* The workflow a >> b; a is declared with inject_context=True. *)
InitFeedback ==
    /\ nodes = {"a", "b"}
    /\ succ = [NoSucc EXCEPT !["a"] = <<"b">>]
    /\ members = [t \in Tasks |-> {}]
    /\ policy = NoPolicy
    /\ start_node = None
    /\ InitContext
    /\ InitDeploy
    /\ InitData

NextFeedback ==
    \/ execute
    \/ get_next_task
    \/ \E t \in Tasks : checkpoint(t)
    \/ \E t \in Tasks : next_iteration(t)
    \/ \E t \in Tasks, reason \in Reasons : cancel_workflow(t, reason)
    \/ \E t \in Tasks : task_returns(t)
    \/ \E t \in Tasks : task_raises(t)
    \/ \E t \in Tasks : request_feedback(t)
    \/ provide_feedback
    \/ \E t \in Tasks : feedback_timeout(t)
    \/ resume_from_checkpoint

SpecFeedback == InitFeedback /\ [][NextFeedback]_vars

(* ---- the channel alone ---- *)

ScalarKeys == {"k"}
ListKeys == {"logs"}
TTLs == {NoTTL} \cup {{n} : n \in 1..MaxTTL}
Defaults == {NoValue, scalar("default")}

set(k, v, ttl) ==
    /\ channel' = channel_set(channel, k, scalar(v), ttl, now)
    /\ called' = Call("set", k, scalar(v), ttl, NoValue, FALSE, FALSE)
    /\ UNCHANGED <<now, engineVars, paramVars,
                   envVars>>

append(k, v, ttl) ==
    /\ list_length(channel, k, now) < MaxItems
    /\ channel' = channel_append(channel, k, v, ttl, now)
    /\ called' = Call("append", k, scalar(v), ttl, NoValue, FALSE, FALSE)
    /\ UNCHANGED <<now, engineVars, paramVars,
                   envVars>>

prepend(k, v, ttl) ==
    /\ list_length(channel, k, now) < MaxItems
    /\ channel' = channel_prepend(channel, k, v, ttl, now)
    /\ called' = Call("prepend", k, scalar(v), ttl, NoValue, FALSE, FALSE)
    /\ UNCHANGED <<now, engineVars, paramVars,
                   envVars>>

get(k, default) ==
    /\ channel' = evict(channel, k, now)
    /\ called' = Call("get", k, default, NoTTL,
                      channel_get(channel, k, default, now), FALSE,
                      channel[k].present /\ expired(channel[k], now))
    /\ UNCHANGED <<now, engineVars, paramVars,
                   envVars>>

exists(k) ==
    /\ channel' = evict(channel, k, now)
    /\ called' = Call("exists", k, NoValue, NoTTL, NoValue,
                      channel_exists(channel, k, now),
                      channel[k].present /\ expired(channel[k], now))
    /\ UNCHANGED <<now, engineVars, paramVars,
                   envVars>>

delete(k) ==
    /\ channel' = channel_delete(channel, k)
    /\ called' = Call("delete", k, NoValue, NoTTL, NoValue, FALSE, FALSE)
    /\ UNCHANGED <<now, engineVars, paramVars,
                   envVars>>

(* A second passes. *)
tick ==
    /\ now < MaxTime
    /\ now' = now + 1
    /\ called' = NoCall
    /\ UNCHANGED <<channel, engineVars, paramVars,
                   envVars>>

InitChannel ==
    /\ nodes = {"a"}
    /\ succ = NoSucc
    /\ members = [t \in Tasks |-> {}]
    /\ policy = NoPolicy
    /\ start_node = None
    /\ InitContext
    /\ InitDeploy
    /\ InitData

NextChannel ==
    \/ \E k \in ScalarKeys, v \in Values, ttl \in TTLs : set(k, v, ttl)
    \/ \E k \in ListKeys, v \in Values, ttl \in TTLs : append(k, v, ttl)
    \/ \E k \in ListKeys, v \in Values, ttl \in TTLs : prepend(k, v, ttl)
    \/ \E k \in UserKeys, default \in Defaults : get(k, default)
    \/ \E k \in UserKeys : exists(k)
    \/ \E k \in UserKeys : delete(k)
    \/ tick

SpecChannel == InitChannel /\ [][NextChannel]_vars

(* ---- the same task logic on a MemoryChannel and on a RedisChannel ---- *)

(* Each call is made on both channels at the same instant. *)
set_both(k, v, ttl) ==
    /\ channel' = channel_set(channel, k, scalar(v), ttl, now)
    /\ called' = Call("set", k, scalar(v), ttl, NoValue, FALSE, FALSE)
    /\ redis' = redis_set(redis, k, scalar(v), ttl, now)
    /\ reply' = Call("set", k, scalar(v), ttl, NoValue, FALSE, FALSE)
    /\ UNCHANGED <<now, engineVars, paramVars, feedback,
                   deployVars,
                   branchVars>>

append_both(k, v, ttl) ==
    /\ list_length(channel, k, now) < MaxItems
    /\ channel' = channel_append(channel, k, v, ttl, now)
    /\ called' = Call("append", k, scalar(v), ttl, NoValue, FALSE, FALSE)
    /\ redis' = redis_rpush(redis, k, v, ttl, now)
    /\ reply' = Call("append", k, scalar(v), ttl, NoValue, FALSE, FALSE)
    /\ UNCHANGED <<now, engineVars, paramVars, feedback,
                   deployVars,
                   branchVars>>

prepend_both(k, v, ttl) ==
    /\ list_length(channel, k, now) < MaxItems
    /\ channel' = channel_prepend(channel, k, v, ttl, now)
    /\ called' = Call("prepend", k, scalar(v), ttl, NoValue, FALSE, FALSE)
    /\ redis' = redis_lpush(redis, k, v, ttl, now)
    /\ reply' = Call("prepend", k, scalar(v), ttl, NoValue, FALSE, FALSE)
    /\ UNCHANGED <<now, engineVars, paramVars, feedback,
                   deployVars,
                   branchVars>>

get_both(k, default) ==
    /\ channel' = evict(channel, k, now)
    /\ called' = Call("get", k, default, NoTTL,
                      channel_get(channel, k, default, now), FALSE,
                      channel[k].present /\ expired(channel[k], now))
    /\ reply' = Call("get", k, default, NoTTL, redis_get(redis, k, default),
                     FALSE, FALSE)
    /\ UNCHANGED <<now, engineVars, paramVars, feedback, redis,
                   deployVars,
                   branchVars>>

exists_both(k) ==
    /\ channel' = evict(channel, k, now)
    /\ called' = Call("exists", k, NoValue, NoTTL, NoValue,
                      channel_exists(channel, k, now),
                      channel[k].present /\ expired(channel[k], now))
    /\ reply' = Call("exists", k, NoValue, NoTTL, NoValue,
                     redis_exists(redis, k), FALSE)
    /\ UNCHANGED <<now, engineVars, paramVars, feedback, redis,
                   deployVars,
                   branchVars>>

delete_both(k) ==
    /\ channel' = channel_delete(channel, k)
    /\ called' = Call("delete", k, NoValue, NoTTL, NoValue, FALSE, FALSE)
    /\ redis' = redis_delete(redis, k)
    /\ reply' = Call("delete", k, NoValue, NoTTL, NoValue, FALSE, FALSE)
    /\ UNCHANGED <<now, engineVars, paramVars, feedback,
                   deployVars,
                   branchVars>>

(* A second passes; the Redis server expires its keys by itself. *)
tick_both ==
    /\ now < MaxTime
    /\ now' = now + 1
    /\ called' = NoCall
    /\ redis' = redis_expire(redis, now + 1)
    /\ reply' = NoCall
    /\ UNCHANGED <<channel, engineVars, paramVars, feedback,
                   deployVars,
                   branchVars>>

NextBackends ==
    \/ \E k \in ScalarKeys, v \in Values, ttl \in TTLs : set_both(k, v, ttl)
    \/ \E k \in ListKeys, v \in Values, ttl \in TTLs : append_both(k, v, ttl)
    \/ \E k \in ListKeys, v \in Values, ttl \in TTLs : prepend_both(k, v, ttl)
    \/ \E k \in UserKeys, default \in Defaults : get_both(k, default)
    \/ \E k \in UserKeys : exists_both(k)
    \/ \E k \in UserKeys : delete_both(k)
    \/ tick_both

SpecBackends == InitChannel /\ [][NextBackends]_vars

(* ---- two applications on one Redis server ---- *)

SpecIds == {1, 2}

(* A producer configured with key_prefix p submits a task spec. *)
enqueue_under(p, id) ==
    /\ Len(keyspace[queue_key(p)]) < MaxItems
    /\ keyspace' = [keyspace EXCEPT ![queue_key(p)] =
                        Append(@, TaskSpec(p, id))]
    /\ last' = Step("enqueue", p, <<>>)
    /\ UNCHANGED <<graphVars, status, error, queue, executing, completed,
                   cycle_counts, retry_count, steps, directives,
                   checkpoint_requested, ckptVars, groupVars, dataVars,
                   feedback, remoteVars, worker_prefix, lifecycle,
                   branchVars>>

(* A worker polls the queue of its own key_prefix. *)
dequeue_under(w) ==
    /\ worker[w] = {}
    /\ keyspace[queue_key(worker_prefix[w])] # <<>>
    /\ LET got == dequeue(keyspace[queue_key(worker_prefix[w])])
       IN  /\ worker' = [worker EXCEPT ![w] = {got.item}]
           /\ keyspace' = [keyspace EXCEPT
                              ![queue_key(worker_prefix[w])] = got.rest]
    /\ last' = Step("dequeue", worker_prefix[w], <<>>)
    /\ UNCHANGED <<graphVars, status, error, queue, executing, completed,
                   cycle_counts, retry_count, steps, directives,
                   checkpoint_requested, ckptVars, barrier, work, outcome,
                   waiting, joinEnq, dataVars, feedback, remoteVars,
                   worker_prefix, lifecycle,
                   branchVars>>

(* The worker has executed the spec; the task wrote v under key k of the
   channel of the worker's key_prefix. *)
finish_under(w, k, v) ==
    /\ worker[w] # {}
    /\ worker' = [worker EXCEPT ![w] = {}]
    /\ keyspace' = [keyspace EXCEPT
                       ![channel_key(worker_prefix[w], k)] = <<v>>]
    /\ last' = Step("finish", worker_prefix[w], <<>>)
    /\ UNCHANGED <<graphVars, status, error, queue, executing, completed,
                   cycle_counts, retry_count, steps, directives,
                   checkpoint_requested, ckptVars, barrier, work, outcome,
                   waiting, joinEnq, dataVars, feedback, remoteVars,
                   worker_prefix, lifecycle,
                   branchVars>>

(* A task of the run under key_prefix p sets, or deletes, a channel key. *)
set_under(p, k, v) ==
    /\ keyspace' = [keyspace EXCEPT ![channel_key(p, k)] = <<v>>]
    /\ last' = Step("set", p, <<>>)
    /\ UNCHANGED <<graphVars, status, error, queue, executing, completed,
                   cycle_counts, retry_count, steps, directives,
                   checkpoint_requested, ckptVars, groupVars, dataVars,
                   feedback, remoteVars, worker_prefix, lifecycle,
                   branchVars>>

delete_under(p, k) ==
    /\ keyspace' = [keyspace EXCEPT ![channel_key(p, k)] = <<>>]
    /\ last' = Step("delete", p, <<>>)
    /\ UNCHANGED <<graphVars, status, error, queue, executing, completed,
                   cycle_counts, retry_count, steps, directives,
                   checkpoint_requested, ckptVars, groupVars, dataVars,
                   feedback, remoteVars, worker_prefix, lifecycle,
                   branchVars>>

(* The workers are started with one or the other key_prefix, in turn. *)
InitNamespace ==
    /\ nodes = {"g", "c"}
    /\ succ = [NoSucc EXCEPT !["g"] = <<"c">>]
    /\ members = [t \in Tasks |-> IF t = "g" THEN BranchIds ELSE {}]
    /\ policy = NoPolicy
    /\ start_node = None
    /\ InitContext
    /\ InitData
    /\ keyspace = [key \in RedisKeys |-> <<>>]
    /\ worker_prefix = [w \in Workers |-> IF w % 2 = 1
                                           THEN "app_a:workflows"
                                           ELSE "app_b:workflows"]
    /\ lifecycle = [w \in Workers |-> Started]

NextNamespace ==
    \/ \E p \in Prefixes, id \in SpecIds : enqueue_under(p, id)
    \/ \E w \in Workers : dequeue_under(w)
    \/ \E w \in Workers, k \in SharedKeys, v \in Values :
         finish_under(w, k, v)
    \/ \E p \in Prefixes, k \in SharedKeys, v \in Values : set_under(p, k, v)
    \/ \E p \in Prefixes, k \in SharedKeys : delete_under(p, k)

SpecNamespace == InitNamespace /\ [][NextNamespace]_vars

(* ---- a parallel group alone, under every policy ---- *)

(* The workflow (x1 | .. | xN) >> c of GroupBranches branches, the group
   with any execution policy or none. *)
InitGroup ==
    /\ nodes = {"g", "c"}
    /\ succ = [NoSucc EXCEPT !["g"] = <<"c">>]
    /\ members = [t \in Tasks |->
                     IF t = "g" THEN 1..GroupBranches ELSE {}]
    /\ policy \in GroupPolicies
    /\ start_node = None
    /\ InitContext
    /\ InitDeploy
    /\ InitData

NextGroup ==
    \/ execute
    \/ get_next_task
    \/ \E g \in Tasks : dispatch(g)
    \/ \E w \in Workers : worker_dequeue(w)
    \/ \E w \in Workers, ok \in BOOLEAN : worker_finish(w, ok)
    \/ \E g \in Tasks, timedOut \in BOOLEAN : wait_barrier(g, timedOut)

SpecGroup == InitGroup /\ [][NextGroup]_vars

(* ---- workers that are shut down while a group executes ---- *)

InitShutdown ==
    /\ nodes = {"g", "c"}
    /\ succ = [NoSucc EXCEPT !["g"] = <<"c">>]
    /\ members = [t \in Tasks |-> IF t = "g" THEN BranchIds ELSE {}]
    /\ policy = NoPolicy
    /\ start_node = None
    /\ InitContext
    /\ InitDeploy
    /\ InitData

NextShutdown ==
    \/ execute
    \/ get_next_task
    \/ \E g \in Tasks : dispatch(g)
    \/ \E w \in Workers : worker_dequeue(w)
    \/ \E w \in Workers, ok \in BOOLEAN : worker_finish(w, ok)
    \/ \E g \in Tasks, timedOut \in BOOLEAN : wait_barrier(g, timedOut)
    \/ \E w \in Workers : signal(w)
    \/ \E w \in Workers : worker_exit(w)
    \/ tick

SpecShutdown == InitShutdown /\ [][NextShutdown]_vars

(* ---- tasks and edges added while the workflow runs ---- *)

(* Mutant: without the goto argument the successors are never skipped. *)
goto_flag_default_false(ns, target, given) == TRUE \in given

(* The skip-successors flag of ctx.next_task(task[, goto]); given holds the
   goto argument, and nothing when the call leaves it out: a call without
   it on a task of the graph is a jump (auto-goto). *)
goto_flag(ns, target, given) ==
    IF given = {} THEN target \in ns ELSE TRUE \in given

(* ctx.next_task(task[, goto]) on a task of the graph or on a new one, which
   is added to the graph. *)
next_task_dynamic(t, target, given) ==
    /\ MayIssue(t)
    /\ directives.jump = None
    /\ members[target] = {}
    /\ nodes' = nodes \cup {target}
    /\ directives' = [directives EXCEPT
                         !.jump = target,
                         !.goto = goto_flag(nodes, target, given)]
    /\ last' = Called(Step("next_task", t, <<>>), given, target \in nodes)
    /\ UNCHANGED <<succ, members, policy, start_node, status, error,
                   queue, executing, completed, cycle_counts, retry_count,
                   steps, checkpoint_requested, ckptVars, groupVars,
                   dataVars, envVars>>

(* The node to, added if it is new, becomes the last successor of from. *)
graph_add_successor(ns, sc, from, to) ==
    graph_add_edge(graph_add_node(ns, sc, to).nodes, sc, from, to)

(* The handler of t adds the task n to the graph as a successor of t. *)
add_successor(t, n) ==
    /\ HasContext(t)
    /\ members[n] = {}
    /\ n \notin Range(succ[t])
    /\ nodes' = graph_add_successor(nodes, succ, t, n).nodes
    /\ succ' = graph_add_successor(nodes, succ, t, n).succ
    /\ UNCHANGED <<last, members, policy, start_node, status, error, queue,
                   executing, completed, cycle_counts, retry_count, steps,
                   directives, checkpoint_requested, ckptVars, groupVars,
                   dataVars, envVars>>

(* The tasks a handler creates at run time. *)
DynamicTasks == {"c", "e"}

(* The workflow process >> continuation, as a >> b; the handler of a may
   add c and e, and call next_task on them or on b. *)
InitDynamic ==
    /\ nodes = {"a", "b"}
    /\ succ = DeclaredSucc
    /\ members = [t \in Tasks |-> {}]
    /\ policy = NoPolicy
    /\ start_node = None
    /\ InitContext
    /\ InitDeploy
    /\ InitData

NextDynamic ==
    \/ execute
    \/ get_next_task
    \/ \E t \in Tasks, target \in {"b"} \cup DynamicTasks,
          given \in {{}, {TRUE}, {FALSE}} :
         next_task_dynamic(t, target, given)
    \/ \E t \in Tasks, n \in DynamicTasks : add_successor(t, n)
    \/ \E t \in Tasks : terminate_workflow(t)
    \/ \E t \in Tasks : task_returns(t)
    \/ \E t \in Tasks : task_raises(t)

SpecDynamic == InitDynamic /\ [][NextDynamic]_vars

(* ---- a task with several predecessors ---- *)

(* Two ways to give task c the predecessors it depends on: the workflow
   (x1 | .. | xN) >> c, whose group is node g, alone or after a task a, and
   the plain edges a >> c, a >> b, b >> c, declared in either order at a. *)
JoinGraphs ==
    { [nodes |-> {"g", "c"},
       succ |-> [NoSucc EXCEPT !["g"] = <<"c">>],
       group |-> {"g"}],
      [nodes |-> {"a", "g", "c"},
       succ |-> [NoSucc EXCEPT !["a"] = <<"g">>, !["g"] = <<"c">>],
       group |-> {"g"}],
      [nodes |-> {"a", "b", "c"},
       succ |-> [NoSucc EXCEPT !["a"] = <<"c", "b">>, !["b"] = <<"c">>],
       group |-> {}],
      [nodes |-> {"a", "b", "c"},
       succ |-> [NoSucc EXCEPT !["a"] = <<"b", "c">>, !["b"] = <<"c">>],
       group |-> {}] }

InitJoin ==
    /\ \E gr \in JoinGraphs :
         /\ nodes = gr.nodes
         /\ succ = gr.succ
         /\ members = [t \in Tasks |->
                          IF t \in gr.group THEN BranchIds ELSE {}]
    /\ policy = NoPolicy
    /\ start_node = None
    /\ InitContext
    /\ InitDeploy
    /\ InitData

NextJoin ==
    \/ execute
    \/ get_next_task
    \/ \E t \in Tasks : task_returns(t)
    \/ \E t \in Tasks : task_raises(t)
    \/ \E g \in Tasks : dispatch(g)
    \/ \E w \in Workers : worker_dequeue(w)
    \/ \E w \in Workers, ok \in BOOLEAN : worker_finish(w, ok)
    \/ \E g \in Tasks, timedOut \in BOOLEAN : wait_barrier(g, timedOut)

SpecJoin == InitJoin /\ [][NextJoin]_vars

(* ---- the branches of a group collect their results in one list ---- *)

(* The key the branches append to, and what branch b appends. *)
ResultsKey == "logs"

branch_result(b) == b

(* The handler of the branch in flight at worker w calls
   channel.append("results", result), on the MemoryChannel of in-process
   branches and on the RedisChannel of remote ones. *)
branch_append(w) ==
    /\ lifecycle[w].state # "stopped"
    /\ worker[w] # {}
    /\ worker[w] \cap collected = {}
    /\ LET b == CHOOSE x \in worker[w] : TRUE
       IN  /\ channel' = channel_append(channel, ResultsKey, branch_result(b),
                                        NoTTL, now)
           /\ redis' = redis_rpush(redis, ResultsKey, branch_result(b),
                                   NoTTL, now)
    /\ collected' = collected \cup worker[w]
    /\ UNCHANGED <<engineVars, now, called, paramVars, feedback, reply,
                   deployVars>>

(* The handler returns after its append, and the worker reports. *)
branch_returns(w) ==
    /\ worker[w] \subseteq collected
    /\ worker_finish(w, TRUE)

(* The handler raises, before or after its append. *)
branch_raises(w) == worker_finish(w, FALSE)

(* The workflow (x1 | .. | xN) >> c with the default policy; every branch
   appends its result to the same key. *)
InitCollect ==
    /\ nodes = {"g", "c"}
    /\ succ = [NoSucc EXCEPT !["g"] = <<"c">>]
    /\ members = [t \in Tasks |-> IF t = "g" THEN BranchIds ELSE {}]
    /\ policy = NoPolicy
    /\ start_node = None
    /\ InitContext
    /\ InitDeploy
    /\ InitData

NextCollect ==
    \/ execute
    \/ get_next_task
    \/ \E g \in Tasks : dispatch(g)
    \/ \E w \in Workers : worker_dequeue(w)
    \/ \E w \in Workers : branch_append(w)
    \/ \E w \in Workers : branch_returns(w)
    \/ \E w \in Workers : branch_raises(w)
    \/ \E g \in Tasks, timedOut \in BOOLEAN : wait_barrier(g, timedOut)
    \/ \E t \in Tasks : task_returns(t)

SpecCollect == InitCollect /\ [][NextCollect]_vars

(* ---- next_task called by a branch of a group ---- *)

(* What a jump issued by a branch in flight can come to. The docs only
   advise against it (it "can break barrier synchronization"), so each of
   these can happen: the call is refused; the target is enqueued and the
   branch goes on to report to the barrier; the target is enqueued and the
   branch ends without its INCR on the barrier. *)
BranchJumpOutcomes == {"rejected", "enqueued", "bypassed"}

(* The handler of the branch in flight at worker w calls
   ctx.next_task(target, goto=True); the target is a task of the graph,
   the group that is waiting at its barrier included. *)
branch_next_task(w, target, result) ==
    /\ lifecycle[w].state # "stopped"
    /\ worker[w] # {}
    /\ waiting
    /\ target \in nodes
    /\ target \notin Range(queue)
    /\ queue' = IF result = "rejected" THEN queue ELSE queue \o <<target>>
    /\ worker' = IF result = "bypassed"
                 THEN [worker EXCEPT ![w] = {}]
                 ELSE worker
    /\ outcome' = IF result = "bypassed"
                  THEN [b \in DOMAIN outcome |->
                           IF b \in worker[w] THEN "ok" ELSE outcome[b]]
                  ELSE outcome
    /\ last' = Step("branch_jump", target,
                    IF result = "rejected" THEN <<>> ELSE <<target>>)
    /\ UNCHANGED <<graphVars, status, error, executing, completed,
                   cycle_counts, retry_count, steps, directives,
                   checkpoint_requested, ckptVars, barrier, work, waiting,
                   joinEnq, dataVars, envVars>>

(* The workflow g >> c, b where g is the group (x1 | .. | xN); b is a task
   of the graph that nothing leads to. *)
InitBranchJump ==
    /\ nodes = {"g", "c", "b"}
    /\ succ = [NoSucc EXCEPT !["g"] = <<"c">>]
    /\ members = [t \in Tasks |-> IF t = "g" THEN BranchIds ELSE {}]
    /\ policy = NoPolicy
    /\ start_node = "g"
    /\ InitContext
    /\ InitDeploy
    /\ InitData

NextBranchJump ==
    \/ execute
    \/ get_next_task
    \/ \E g \in Tasks : dispatch(g)
    \/ \E w \in Workers : worker_dequeue(w)
    \/ \E w \in Workers, ok \in BOOLEAN : worker_finish(w, ok)
    \/ \E w \in Workers, target \in {"b", "g"}, result \in BranchJumpOutcomes :
          branch_next_task(w, target, result)
    \/ \E g \in Tasks, timedOut \in BOOLEAN : wait_barrier(g, timedOut)
    \/ \E t \in Tasks : task_returns(t)

SpecBranchJump == InitBranchJump /\ [][NextBranchJump]_vars

(* ---- a worker that crashes with a branch in flight ---- *)

(* The worker process dies with a branch in flight, before the execution
   (reported = FALSE) or between its INCR on the barrier and the
   acknowledgement of the task spec (reported = TRUE). The task spec is
   delivered again: at-least-once delivery under worker crash. *)
worker_crash(w, reported) ==
    /\ lifecycle[w].state # "stopped"
    /\ worker[w] # {}
    /\ lifecycle' = [lifecycle EXCEPT ![w].state = "stopped"]
    /\ work' = work \o branch_order(worker[w])
    /\ worker' = [worker EXCEPT ![w] = {}]
    /\ outcome' = [b \in DOMAIN outcome |->
                      IF reported /\ b \in worker[w] THEN "ok" ELSE outcome[b]]
    /\ barrier' = IF reported
                  THEN [barrier EXCEPT !.count = @ + 1]
                  ELSE barrier
    /\ UNCHANGED <<graphVars, status, error, queue, executing, completed,
                   cycle_counts, retry_count, steps, directives,
                   checkpoint_requested, ckptVars, waiting, joinEnq, last,
                   dataVars, feedback, remoteVars, keyspace, worker_prefix,
                   branchVars>>

(* The workflow (x1 | .. | xN) >> c with the default policy, on workers
   that can crash. *)
InitCrash ==
    /\ nodes = {"g", "c"}
    /\ succ = [NoSucc EXCEPT !["g"] = <<"c">>]
    /\ members = [t \in Tasks |-> IF t = "g" THEN BranchIds ELSE {}]
    /\ policy \in {NoPolicy, [kind |-> "BestEffort", min |-> 0, ids |-> {}]}
    /\ start_node = None
    /\ InitContext
    /\ InitDeploy
    /\ InitData

NextCrash ==
    \/ execute
    \/ get_next_task
    \/ \E g \in Tasks : dispatch(g)
    \/ \E w \in Workers : worker_dequeue(w)
    \/ \E w \in Workers, ok \in BOOLEAN : worker_finish(w, ok)
    \/ \E w \in Workers, reported \in BOOLEAN : worker_crash(w, reported)
    \/ \E g \in Tasks, timedOut \in BOOLEAN : wait_barrier(g, timedOut)
    \/ \E t \in Tasks : task_returns(t)

SpecCrash == InitCrash /\ [][NextCrash]_vars

(* The same runs, with the scheduling the deployment gives: a worker that
   can take or report a branch eventually does, and wait_barrier, whose
   timeout runs on the clock of the coordinator, eventually returns. *)
SpecCrashFair ==
    /\ SpecCrash
    /\ WF_vars(\E w \in Workers : worker_dequeue(w))
    /\ WF_vars(\E w \in Workers, ok \in BOOLEAN : worker_finish(w, ok))
    /\ WF_vars(\E g \in Tasks, timedOut \in BOOLEAN : wait_barrier(g, timedOut))

(* ---- a run of handlers that return and issue no directive ---- *)

(* The tasks one edge after those of S. *)
Successors(S) == UNION {Range(succ[t]) : t \in S}

RECURSIVE Closure(_, _)
Closure(S, d) == IF d = 0 THEN S ELSE Closure(S \cup Successors(S), d - 1)

(* The tasks the edges lead to from t, t included. *)
ReachableFrom(t) == Closure({t}, Cardinality(nodes))

(* The static skeleton is a DAG: no edges lead from a task back to it. *)
Acyclic ==
    \A t \in nodes : t \notin Closure(Successors({t}), Cardinality(nodes))

(* The node wf.execute(start_node) starts at, if it finds one. *)
StartOf ==
    IF start_node = None
    THEN resolve_start(nodes, succ)
    ELSE [ok |-> start_node \in nodes, node |-> start_node]

(* The dequeues of a run from t that follows paths of at most d edges: t,
   and every successor once per completion of t. *)
RECURSIVE Dequeues(_, _)
RECURSIVE DequeuesOfAll(_, _)
Dequeues(t, d) == IF d = 0 THEN 1 ELSE 1 + DequeuesOfAll(succ[t], d - 1)

DequeuesOfAll(ts, d) ==
    IF ts = <<>> THEN 0 ELSE Dequeues(Head(ts), d) + DequeuesOfAll(Tail(ts), d)

(* Every graph over up to three nodes, with or without cycles, started at
   the node execute finds or at a given node; of the acyclic ones, those
   whose run fits in MaxSteps dequeues. *)
InitFinite ==
    /\ nodes \in SUBSET StartNodes
    /\ \E edges \in SUBSET (StartNodes \X StartNodes) :
         /\ edges \subseteq nodes \X nodes
         /\ succ = [t \in Tasks |-> InOrder({m \in nodes : <<t, m>> \in edges})]
    /\ members = [t \in Tasks |-> {}]
    /\ policy = NoPolicy
    /\ start_node \in {None} \cup nodes
    /\ (Acyclic /\ StartOf.ok) =>
           Dequeues(StartOf.node, Cardinality(nodes)) <= MaxSteps
    /\ InitContext
    /\ InitDeploy
    /\ InitData

NextFinite ==
    \/ execute
    \/ get_next_task
    \/ \E t \in Tasks : task_returns(t)

SpecFinite == InitFinite /\ [][NextFinite]_vars

(* The engine loop goes on while it can, and every handler returns. *)
SpecFiniteFair ==
    /\ SpecFinite
    /\ WF_vars(get_next_task)
    /\ WF_vars(\E t \in Tasks : task_returns(t))

(* ======================= properties ======================= *)

Returned == {"cancel", "terminate", "jump", "loop", "normal"}

(* C1: for a parallel group of N branches, under every interleaving of the
   workers, the joint successors of the group are enqueued exactly once, and
   only after the barrier has resolved: never while the producer still
   waits, never with fewer than N branches reported unless the timeout has
   elapsed, and only when the branches that reported success satisfy the
   group policy. *)
C1_JoinOnceAfterBarrier ==
    /\ joinEnq <= 1
    /\ waiting => joinEnq = 0 /\ executing # None
    /\ last.kind = "join" =>
         /\ joinEnq = 1
         /\ last.enq = succ[last.task]
         /\ last.report.seen = members[last.task] \/ last.report.timeout
         /\ group_succeeds(policy, last.report.ok, members[last.task])
         /\ last.report.ok \subseteq last.report.seen

(* C1 witness: the join after all N >= 2 branches reported, one of them
   failed, without timeout. *)
C1_Witness ==
    /\ last.kind = "join"
    /\ ~last.report.timeout
    /\ Cardinality(last.report.seen) >= 2
    /\ last.report.ok # last.report.seen
    /\ last.enq # <<>>

(* C2: a checkpoint requested through checkpoint() is not created while the
   handler runs (the call only sets the flag); the engine creates it after
   the handler has returned and the task is marked completed, before the
   next dequeue; no task is EXECUTING in a checkpoint. *)
C2_CheckpointDeferred ==
    /\ [](/\ ckpt.task # None =>
                /\ ckpt.executing = None
                /\ ckpt.task \in ckpt.completed_tasks
          /\ checkpoint_requested => executing # None)
    /\ [][/\ (executing # None /\ executing' = executing) =>
                (ckpt' = ckpt /\ nckpt' = nckpt)
          /\ nckpt' > nckpt =>
                /\ executing # None /\ executing' = None
                /\ checkpoint_requested /\ ~checkpoint_requested'
                /\ ckpt'.task = executing
                /\ ckpt'.pending_tasks = queue'
                /\ ckpt'.completed_tasks = completed'
                /\ ckpt'.steps = steps']_vars

(* C2 witness: a checkpoint was written as task a ended, and nothing has
   been dequeued since. *)
C2_Witness ==
    /\ ckpt.task = "a"
    /\ last.task = "a"
    /\ last.kind \in Returned
    /\ ckpt.steps = steps
    /\ executing = None
    /\ ckpt.pending_tasks # <<>>

(* The state right after resume_from_checkpoint: ckpt is the checkpoint
   resumed, written as task ckpt.task ended. *)
Resumed == last.kind = "resume"

(* C3: resuming a checkpoint created as task T completed gives a context in
   which T is completed and every task enqueued by T's completion is
   pending; T is pending in it only if T's completion re-enqueued T itself
   (self-loop, jump to T) or another spec of T was pending already. *)
C3_ResumeRoundTrip ==
    Resumed =>
        /\ ckpt.task \in completed
        /\ Range(ckpt.enqueued) \subseteq Range(queue)
        /\ ckpt.task \in Range(queue) =>
              ckpt.task \in Range(ckpt.enqueued) \cup Range(ckpt.was_pending)

(* C3 witness: a resume after which T's successors are pending and T is
   not. *)
C3_Witness ==
    /\ Resumed
    /\ ckpt.enqueued # <<>>
    /\ ckpt.task \notin Range(queue)
    /\ ckpt.task \in completed

(* C3 as stated: after the resume T is completed, T is not in the pending
   queue, and the successors enqueued by T are pending. *)
C3_AsStated ==
    Resumed =>
        /\ ckpt.task \in completed
        /\ ckpt.task \notin Range(queue)
        /\ Range(ckpt.enqueued) \subseteq Range(queue)

(* The handler of t returns a value in this step. *)
Returns(t) ==
    /\ executing = t
    /\ t \in Tasks
    /\ members[t] = {}
    /\ executing' = None
    /\ last'.kind \in Returned

(* What this step appended to the queue, when it only appended. *)
Appended == SubSeq(queue', Len(queue) + 1, Len(queue'))

OnlyAppends == Len(queue') >= Len(queue) /\ SubSeq(queue', 1, Len(queue)) = queue

Occurrences(q, x) == Cardinality({i \in 1..Len(q) : q[i] = x})

SameElements(q1, q2) ==
    /\ Len(q1) = Len(q2)
    /\ \A x \in Tasks : Occurrences(q1, x) = Occurrences(q2, x)

(* C4: when a handler returns without having issued any directive, the task
   is marked completed, exactly its graph successors are enqueued, and no
   other task's completed state changes. *)
C4_NormalFlow ==
    [][\A t \in Tasks :
         (Returns(t) /\ directives = NoDirectives) =>
             /\ completed' = completed \cup {t}
             /\ queue' = queue \o succ[t]
             /\ status' = status]_vars

(* C4 witness: a completed without directive enqueued its two successors. *)
C4_Witness ==
    /\ last.kind = "normal"
    /\ last.issued = 0
    /\ Len(last.enq) = 2
    /\ last.task \in completed

(* C5: when the jump (next_task) is the directive that decides, the issuing
   task is marked completed; with goto exactly the target is enqueued and no
   normal successor; without goto the target and all the normal successors
   are. *)
C5_Jump ==
    [][\A t \in Tasks :
         (/\ Returns(t)
          /\ directives.cancel = None
          /\ ~directives.terminate
          /\ directives.jump # None) =>
             /\ completed' = completed \cup {t}
             /\ OnlyAppends
             /\ IF directives.goto
                THEN Appended = <<directives.jump>>
                ELSE SameElements(Appended, <<directives.jump>> \o succ[t])]_vars

(* C5 witness: a jump with goto from a task that has successors. *)
C5_Witness ==
    /\ last.kind = "jump"
    /\ Len(last.enq) = 1
    /\ succ[last.task] # <<>>
    /\ last.enq[1] \notin Range(succ[last.task])

(* C6: when the self-loop (next_iteration) is the directive that decides,
   the cycle count of the task grows by exactly 1, no other count changes,
   and only the task itself is enqueued: none of its successors is, until
   an execution of the task ends otherwise. *)
C6_SelfLoop ==
    [][\A t \in Tasks :
         (/\ Returns(t)
          /\ directives.cancel = None
          /\ ~directives.terminate
          /\ directives.jump = None
          /\ directives.loop) =>
             /\ cycle_counts' = [cycle_counts EXCEPT ![t] = cycle_counts[t] + 1]
             /\ queue' = queue \o <<t>>]_vars

(* C6 witness: the second self-loop of a task that has successors, none of
   them pending or completed. *)
C6_Witness ==
    /\ last.kind = "loop"
    /\ cycle_counts[last.task] = 2
    /\ succ[last.task] # <<>>
    /\ Range(succ[last.task]) \cap (Range(queue) \cup completed) = {}

(* C7: when a handler has issued cancel_workflow(reason), the task is not
   marked completed, nothing is enqueued (no successor, no retry of the
   task), the run ends with GraflowWorkflowCanceledError carrying the
   reason, and nothing is dequeued or executed afterwards. *)
C7_Cancel ==
    /\ [][\A t \in Tasks :
            (Returns(t) /\ directives.cancel # None) =>
                /\ completed' = completed
                /\ queue' = queue
                /\ status' = "canceled"
                /\ error' = [type |-> "GraflowWorkflowCanceledError",
                             reason |-> directives.cancel]]_vars
    /\ [][(status = "canceled" /\ last'.kind # "resume") =>
            UNCHANGED <<status, error, queue, executing, completed, steps>>]_vars

(* C7 witness: a canceled run with a task still pending and the canceling
   task not completed. *)
C7_Witness ==
    /\ status = "canceled"
    /\ last.kind = "cancel"
    /\ error.reason = "r2"
    /\ last.task \notin completed
    /\ queue # <<>>

(* C8: when terminate_workflow decides, the task is marked completed, none
   of its successors is enqueued, the run ends successfully without error,
   and no further task is executed, those pending in the queue included. *)
C8_Terminate ==
    /\ [][\A t \in Tasks :
            (Returns(t) /\ directives.cancel = None /\ directives.terminate) =>
                /\ completed' = completed \cup {t}
                /\ queue' = queue
                /\ status' = "done"
                /\ error'.type = None]_vars
    /\ [][(status = "done" /\ last'.kind # "resume") =>
            UNCHANGED <<status, error, queue, executing, completed, steps>>]_vars

(* C8 witness: a run ended by terminate_workflow, with a task still pending
   and the successors of the task not enqueued. *)
C8_Witness ==
    /\ status = "done"
    /\ last.kind = "terminate"
    /\ last.task \in completed
    /\ queue # <<>>
    /\ succ[last.task] # <<>>
    /\ Range(succ[last.task]) \cap Range(queue) = {}

(* C9: when a handler has issued several control directives, the one of
   highest priority, cancel > terminate > jump > self-loop > normal, alone
   decides whether the task is marked completed and what is enqueued. *)
C9_Priority ==
    [][\A t \in Tasks :
         (Returns(t) /\ issued(directives) >= 2) =>
            LET d == directives
            IN  IF d.cancel # None
                THEN /\ completed' = completed
                     /\ queue' = queue
                     /\ cycle_counts' = cycle_counts
                     /\ status' = "canceled"
                     /\ error'.reason = d.cancel
                ELSE IF d.terminate
                THEN /\ completed' = completed \cup {t}
                     /\ queue' = queue
                     /\ cycle_counts' = cycle_counts
                     /\ status' = "done"
                ELSE IF d.jump # None
                THEN /\ completed' = completed \cup {t}
                     /\ cycle_counts' = cycle_counts
                     /\ status' = status
                     /\ queue' = queue \o (IF d.goto THEN <<d.jump>>
                                           ELSE <<d.jump>> \o succ[t])
                ELSE /\ d.loop
                     /\ completed' = completed \cup {t}
                     /\ queue' = queue \o <<t>>]_vars

(* C9 witness: cancel decided over another directive, the task is not
   completed. *)
C9_Witness ==
    /\ last.kind = "cancel"
    /\ last.issued >= 2
    /\ last.task \notin completed
    /\ status = "canceled"

(* The nodes no edge of the graph leads to. *)
ZeroInDegree ==
    {n \in nodes : \A m \in nodes : \A i \in 1..Len(succ[m]) : succ[m][i] # n}

(* C10: without explicit start node, execute() starts from the node of zero
   in-degree when there is exactly one, and raises GraphCompilationError,
   starting nothing, when there is none or more than one. *)
C10_ResolveStart ==
    (last.kind = "execute" /\ start_node = None) =>
        IF Cardinality(ZeroInDegree) = 1
        THEN /\ status = "running"
             /\ error.type = None
             /\ \A n \in ZeroInDegree : queue = <<n>>
        ELSE /\ status = "config_error"
             /\ error.type = "GraphCompilationError"
             /\ queue = <<>>

(* C10 witness: the start resolved in a graph of three nodes where the
   other two have predecessors. *)
C10_Witness ==
    /\ last.kind = "execute"
    /\ start_node = None
    /\ Cardinality(nodes) = 3
    /\ Cardinality(ZeroInDegree) = 1
    /\ status = "running"
    /\ Len(queue) = 1

(* C11: when the start node cannot be resolved (no explicit start, and no
   node or several nodes of zero in-degree), execute() raises
   GraphCompilationError before any task runs: no task is or has been
   EXECUTING, the queue is empty, nothing was dispatched to the workers,
   and no channel entry, completed mark or checkpoint has been written. *)
C11_ConfigErrorBeforeAnyTask ==
    /\ (/\ last.kind = "execute"
         /\ start_node = None
         /\ Cardinality(ZeroInDegree) # 1) => status = "config_error"
    /\ status = "config_error" =>
          /\ error.type = "GraphCompilationError"
          /\ executing = None
          /\ steps = 0
          /\ queue = <<>>
          /\ work = <<>>
          /\ completed = {}
          /\ channel = EmptyChannel
          /\ nckpt = 0

(* C11 witness: execute() has failed on a workflow with several nodes of
   zero in-degree. *)
C11_Witness ==
    /\ status = "config_error"
    /\ start_node = None
    /\ Cardinality(ZeroInDegree) >= 2
    /\ last.kind = "execute"

(* C12: every parameter is resolved by the priority injection > bound at
   creation > channel: an injected parameter gets the injected object
   whatever is bound or in the channel under its name, a bound value wins
   over a channel value of the same name, and the channel value is used
   only for a name that is neither injected nor bound. *)
C12_ParameterPriority ==
    last.kind = "resolve" =>
        \A p \in ParamNames :
            /\ p \in injection => resolved[p] = injected_object(p)
            /\ (p \notin injection /\ p \in DOMAIN bound) =>
                  resolved[p] = bound[p]
            /\ (p \notin injection /\ p \notin DOMAIN bound
                  /\ channel[p].present) => resolved[p] = channel[p].value
            /\ (channel[p].present /\ resolved[p] = channel[p].value) =>
                  /\ p \notin injection
                  /\ p \notin DOMAIN bound \/ bound[p] = channel[p].value

(* C12 witness: value bound to 10 with 100 in the channel resolves to 10,
   multiplier comes from the channel, and ctx is injected although the
   channel holds a ctx and one is bound. *)
C12_Witness ==
    /\ last.kind = "resolve"
    /\ DOMAIN bound = {"value", "ctx"}
    /\ bound["value"] = scalar("10")
    /\ channel["value"].present /\ channel["value"].value = scalar("100")
    /\ channel["multiplier"].present
    /\ channel["ctx"].present
    /\ "ctx" \in injection
    /\ resolved["value"] = scalar("10")
    /\ resolved["multiplier"] = channel["multiplier"].value
    /\ resolved["ctx"] = injected_object("ctx")

(* The producer has just left wait_barrier: last.report holds the branches
   that had reported and those that had succeeded. *)
GroupEnded == last.kind \in {"join", "group_failed"}

GroupJoined ==
    /\ last.kind = "join"
    /\ joinEnq = 1
    /\ queue = succ[last.task]
    /\ last.task \in completed
    /\ status = "running"

GroupFailed ==
    /\ last.kind = "group_failed"
    /\ joinEnq = 0
    /\ queue = <<>>
    /\ last.task \notin completed
    /\ status = "failed"
    /\ error.type = "ParallelGroupError"

(* All the branches reported, one of them failed, before any timeout. *)
OneOfFourFailed ==
    /\ GroupEnded
    /\ ~last.report.timeout
    /\ Cardinality(members[last.task]) = 4
    /\ last.report.seen = members[last.task]
    /\ Cardinality(last.report.ok) = 3

(* C13: under the Strict policy, which is the policy of a group that was
   given none, the group succeeds if and only if every branch succeeded;
   with one branch failed the group fails and the joint successor is not
   enqueued. *)
C13_Strict ==
    (policy.kind \in {None, "Strict"} /\ GroupEnded) =>
        /\ last.kind = "join" <=> last.report.ok = members[last.task]
        /\ last.kind = "join" => GroupJoined
        /\ last.kind = "group_failed" => GroupFailed

(* C13 witness: 4 branches, 1 failed, no policy configured: the group
   failed. *)
C13_Witness ==
    /\ policy.kind = None
    /\ OneOfFourFailed
    /\ GroupFailed

(* C14: under the BestEffort policy the group succeeds whatever the
   outcomes of the branches, all of them failing included; the outcome of
   each branch stays recorded, and the joint successor is enqueued. *)
C14_BestEffort ==
    policy.kind = "BestEffort" =>
        /\ status # "failed"
        /\ GroupEnded =>
              /\ GroupJoined
              /\ \A b \in last.report.ok : outcome[b] = "ok"
              /\ \A b \in last.report.seen \ last.report.ok :
                     outcome[b] = "failed"

(* C14 witness: 4 branches, 1 failed: the group succeeded with 3 successes
   and 1 failure recorded. *)
C14_Witness ==
    /\ policy.kind = "BestEffort"
    /\ OneOfFourFailed
    /\ GroupJoined
    /\ Cardinality({b \in members[last.task] : outcome[b] = "ok"}) = 3
    /\ Cardinality({b \in members[last.task] : outcome[b] = "failed"}) = 1

(* C15: under AtLeastN(min_success = N) the group succeeds if and only if
   at least N branches succeeded, and fails otherwise. *)
C15_AtLeastN ==
    (policy.kind = "AtLeastN" /\ GroupEnded) =>
        /\ last.kind = "join" <=> Cardinality(last.report.ok) >= policy.min
        /\ last.kind = "join" => GroupJoined
        /\ last.kind = "group_failed" => GroupFailed

(* C15 witness: exactly min_success = 2 of the 4 branches succeeded and the
   group succeeded. *)
C15_Witness ==
    /\ policy.kind = "AtLeastN"
    /\ policy.min = 2
    /\ GroupJoined
    /\ ~last.report.timeout
    /\ Cardinality(last.report.seen) = 4
    /\ Cardinality(last.report.ok) = 2

(* C16: under Critical(critical_task_ids) the group succeeds if and only if
   every critical branch succeeded: the failure of a branch that is not
   critical never fails the group, the failure of a critical one always
   does. *)
C16_Critical ==
    (policy.kind = "Critical" /\ GroupEnded) =>
        /\ last.kind = "join" <=> policy.ids \subseteq last.report.ok
        /\ last.kind = "join" => GroupJoined
        /\ last.kind = "group_failed" => GroupFailed

(* C16 witness: the only failed branch of 4 is the critical one of two
   critical branches, and the group failed. *)
C16_Witness ==
    /\ policy.kind = "Critical"
    /\ policy.ids = {1, 2}
    /\ OneOfFourFailed
    /\ 1 \notin last.report.ok
    /\ GroupFailed

(* C17: set, append and prepend with a ttl give the entry the expiry instant
   now + ttl; a read (get or exists) of an entry whose expiry instant has
   passed treats the key as absent, get returning the default and exists
   false, and removes the entry; a read before the expiry instant returns
   the value stored and leaves the entry. *)
C17_TTL ==
    [][\A k \in UserKeys :
         /\ (/\ called'.op \in {"set", "append", "prepend"}
             /\ called'.key = k
             /\ called'.ttl # NoTTL) =>
                /\ channel'[k].present
                /\ channel'[k].expires = {now + n : n \in called'.ttl}
                /\ called'.op = "set" => channel'[k].value = called'.arg
         /\ (/\ called'.op \in {"get", "exists"}
             /\ called'.key = k
             /\ channel[k].present
             /\ channel[k].expires # {}) =>
                IF \A x \in channel[k].expires : now > x
                THEN /\ called'.op = "get" => called'.ret = called'.arg
                     /\ called'.op = "exists" => ~called'.found
                     /\ channel'[k] = Absent
                ELSE IF \A x \in channel[k].expires : now < x
                THEN /\ called'.op = "get" => called'.ret = channel[k].value
                     /\ called'.op = "exists" => called'.found
                     /\ channel'[k] = channel[k]
                ELSE TRUE]_vars

(* C17 witness: a get with a default met the expired entry of a list and
   returned the default; the key is no longer in the store. *)
C17_Witness ==
    /\ called.op = "get"
    /\ called.key = "logs"
    /\ called.expired
    /\ called.arg = scalar("default")
    /\ called.ret = called.arg
    /\ channel["logs"] = Absent
    /\ channel["k"].present

(* The tasks of the chain that come right before t. *)
ChainPredecessors(t) == {p \in nodes : \E i \in 1..Len(succ[p]) : succ[p][i] = t}

(* The run started at the head of the chain. *)
StartedAtHead == start_node = None \/ ChainPredecessors(start_node) = {}

(* C18: in a run of the chain a >> b >> c that started at the head of the
   chain and in which no handler calls next_task, a task is EXECUTING only
   when its predecessor in the chain is COMPLETED; a branch of a parallel
   group runs only once the group is EXECUTING, and the group is COMPLETED,
   its successor run, only after the barrier, whatever the order in which
   the branches ran. *)
C18_ChainOrder ==
    /\ StartedAtHead =>
          \A t \in nodes :
              (executing = t \/ t \in completed) =>
                  ChainPredecessors(t) \subseteq completed
    /\ \A g \in nodes :
          /\ (members[g] # {} /\ g \in completed) => joinEnq = 1 /\ ~waiting
          /\ (members[g] # {} /\ executing # g) =>
                (work = <<>> \/ joinEnq = 1 \/ status = "failed")

(* C18 witness: c is EXECUTING after a and the group completed, the second
   branch of the group having failed. *)
C18_Witness ==
    /\ executing = "c"
    /\ start_node = None
    /\ completed = {"a", "g"}
    /\ outcome[1] = "ok"
    /\ outcome[2] = "failed"

(* C18 as stated: a task never enters EXECUTING before its predecessor in
   the chain is COMPLETED. *)
C18_AsStated ==
    \A t \in nodes :
        executing = t => ChainPredecessors(t) \subseteq completed

(* The handler of t faults in this step. *)
Faults(t) ==
    /\ executing = t
    /\ t \in Tasks
    /\ executing' = None
    /\ last'.kind \in {"retry", "fatal"}

(* C19: when a handler faults, the task is re-enqueued with its counter
   incremented only while attempts remain under its retry policy, so that
   no task is attempted more than max_attempts times; with the attempts
   used up the fault ends the run with an error, and after that nothing is
   dequeued, executed or retried by the engine. *)
C19_Retry ==
    /\ [](\A t \in Tasks :
            /\ retry_count[t] < max_attempts(t)
            /\ executing = t => retry_count[t] + 1 <= max_attempts(t))
    /\ [][\A t \in Tasks :
            Faults(t) =>
                IF retry_count[t] + 1 < max_attempts(t)
                THEN /\ queue' = queue \o <<t>>
                     /\ retry_count' = [retry_count EXCEPT ![t] = retry_count[t] + 1]
                     /\ status' = status
                     /\ completed' = completed
                ELSE /\ queue' = queue
                     /\ retry_count' = retry_count
                     /\ status' = "failed"
                     /\ error'.type = "TaskError"
                     /\ completed' = completed]_vars
    /\ [][(status = "failed" /\ last'.kind # "resume") =>
            UNCHANGED <<status, error, queue, executing, completed, steps,
                        retry_count>>]_vars

(* C19 witness: the last attempt allowed to a has faulted; the run has
   failed after exactly max_attempts attempts of a. *)
C19_Witness ==
    /\ status = "failed"
    /\ last.kind = "fatal"
    /\ last.task = "a"
    /\ max_attempts("a") >= 2
    /\ retry_count["a"] = max_attempts("a") - 1
    /\ steps = max_attempts("a")
    /\ "a" \notin completed

(* The states of a task of the engine's loop: PENDING in the queue,
   EXECUTING, COMPLETED. The steps of such a task: it enters EXECUTING only
   from the head of the queue; it is marked COMPLETED only in the step in
   which it leaves EXECUTING; it leaves EXECUTING completed, or pending
   again with one more fault counted, or with the run aborted. *)
TaskLifecycle ==
    \A t \in Tasks :
        /\ (executing' = t /\ executing # t) =>
              /\ queue # <<>>
              /\ Head(queue) = t
              /\ queue' = Tail(queue)
        /\ (t \in completed' /\ t \notin completed) =>
              executing = t /\ executing' = None
        /\ (executing = t /\ executing' # t) =>
              \/ t \in completed'
              \/ /\ completed' = completed
                 /\ queue' = queue \o <<t>>
                 /\ retry_count'[t] = retry_count[t] + 1
                 /\ status' = status
              \/ /\ completed' = completed
                 /\ queue' = queue
                 /\ status' \in {"failed", "canceled"}
                 /\ error'.type # None

(* C20: every task run by the engine's loop only moves along PENDING ->
   EXECUTING -> COMPLETED, never marked COMPLETED without having been
   EXECUTING, and a faulting attempt of it returns it to PENDING with its
   counter incremented or aborts the run; a branch of a parallel group that
   faulted stays recorded as failed, is not queued again, and aborts the
   run only through the group policy. *)
C20_Lifecycle ==
    /\ [][TaskLifecycle]_vars
    /\ [](\A b \in DOMAIN outcome :
            outcome[b] = "failed" =>
                /\ b \notin Range(work)
                /\ \A w \in Workers : b \notin worker[w]
                /\ (status = "failed" /\ last.kind = "group_failed") =>
                      ~group_succeeds(execution_policy(policy),
                                      last.report.ok, members[last.task]))

(* C20 witness: the first attempt of a has faulted and a is pending again
   with one fault counted, not completed. *)
C20_Witness ==
    /\ last.kind = "retry"
    /\ last.task = "a"
    /\ queue = <<"a">>
    /\ retry_count["a"] = 1
    /\ executing = None
    /\ "a" \notin completed
    /\ status = "running"

(* C20 as stated: the same of every task instance, the branches of a group
   included: a branch that faulted is pending again or the run is aborted,
   once the barrier has been evaluated. *)
C20_AsStated ==
    /\ [][TaskLifecycle]_vars
    /\ [](\A b \in DOMAIN outcome :
            (outcome[b] = "failed" /\ ~waiting) =>
                \/ b \in Range(work)
                \/ status = "failed")

(* ---- human feedback: timeout, checkpoint and pause ---- *)

(* The request of the running task times out in this step. *)
TimesOut == feedback.state = "waiting" /\ feedback'.state = "timeout"

(* The response arrives in this step, within the timeout. *)
Responds == feedback.state = "waiting" /\ feedback'.state = "responded"

(* C21: when a feedback request gets no response within its timeout, a
   checkpoint is created and the run pauses: no error is raised, the run is
   neither canceled nor failed, and while it is paused no task is executed,
   completed or queued until resume_from_checkpoint; a response within the
   timeout lets the task go on, with no checkpoint and no pause. *)
C21_FeedbackTimeout ==
    [][/\ TimesOut =>
            /\ nckpt' = nckpt + 1
            /\ ckpt'.task = feedback.task
            /\ status' = "paused"
            /\ error' = error
            /\ error'.type = None
       /\ status = "paused" =>
            \/ /\ last'.kind = "resume"
               /\ status' = "running"
            \/ /\ status' = "paused"
               /\ executing' = None
               /\ UNCHANGED <<steps, completed, queue, ckpt, nckpt>>
       /\ Responds =>
            /\ UNCHANGED <<ckpt, nckpt, status, executing>>
            /\ status = "running"
            /\ executing = feedback.task]_vars

(* C21 witness: the request timed out, the run paused with one checkpoint,
   the response was provided later and the run has been resumed. *)
C21_Witness ==
    /\ last.kind = "resume"
    /\ feedback.state = "provided"
    /\ feedback.checkpoint = {nckpt}
    /\ status = "running"
    /\ error.type = None

(* C22: in the checkpoint created on a feedback timeout the requesting task
   is pending, and the execution that timed out has not marked it completed:
   the completed tasks are those of before, with the task among them only
   if an earlier cycle of it had completed; resuming from that checkpoint
   puts the task in the queue of a context without directives, so that it
   is executed again from its beginning. *)
C22_TimeoutCheckpoint ==
    [][/\ TimesOut =>
            /\ feedback.task \in Range(ckpt'.pending_tasks)
            /\ ckpt'.completed_tasks = completed
            /\ feedback.task \in ckpt'.completed_tasks =>
                   cycle_counts[feedback.task] > 0
       /\ (last'.kind = "resume" /\ last # last'
           /\ feedback.checkpoint = {nckpt}) =>
            /\ feedback.task \in Range(queue')
            /\ executing' = None
            /\ directives' = NoDirectives
            /\ ~checkpoint_requested'
            /\ completed' = ckpt.completed_tasks]_vars

(* C22 witness: the run was resumed from the checkpoint of the timeout and
   the task that had asked for feedback is executing again. *)
C22_Witness ==
    /\ last.kind = "dequeue"
    /\ resumes = 1
    /\ feedback.checkpoint = {nckpt}
    /\ executing = feedback.task
    /\ feedback.task \notin completed
    /\ directives = NoDirectives

(* C22 as stated: the task is pending and not in the completed tasks of
   the checkpoint of the timeout. *)
C22_AsStated ==
    (last.kind = "feedback_timeout") =>
        /\ last.task \in Range(ckpt.pending_tasks)
        /\ last.task \notin ckpt.completed_tasks

(* ---- task workers on the shared queue ---- *)

(* How many times branch b is in the queue, in flight at a worker, or
   reported. *)
InQueue(b) == Cardinality({i \in 1..Len(work) : work[i] = b})

InFlight(b) == Cardinality({w \in Workers : b \in worker[w]})

Reported(b) == IF outcome[b] # None THEN 1 ELSE 0

(* C23: with several workers polling the shared queue and no worker crash,
   every dispatched task spec is at any time either still in the queue, or
   in flight at exactly one worker, or executed once: none is delivered to
   two workers, none is lost, and the barrier has counted one increment per
   executed spec; a dequeue hands the head of the queue to one worker and
   removes it. *)
C23_ExactlyOnce ==
    /\ [](barrier.n > 0 =>
            /\ \A b \in members["g"] :
                   InQueue(b) + InFlight(b) + Reported(b) = 1
            /\ barrier.count =
                   Cardinality({b \in members["g"] : outcome[b] # None}))
    /\ [][work' # work =>
            \/ last'.kind = "dispatch" /\ last # last'
            \/ /\ work # <<>>
               /\ work' = Tail(work)
               /\ \E w \in Workers :
                     /\ worker[w] = {}
                     /\ worker' = [worker EXCEPT ![w] = {Head(work)}]]_vars

(* C23 witness: every worker holds a spec at the same time, while one spec
   has been executed and another is still in the queue. *)
C23_Witness ==
    /\ barrier.n = GroupBranches
    /\ \A w \in Workers : worker[w] # {}
    /\ work # <<>>
    /\ barrier.count > 0
    /\ waiting

(* ---- MemoryChannel and RedisChannel ---- *)

(* What a task can read under key k: whether it exists, its value and the
   instant it expires. *)
MemoryView(k) ==
    IF live(channel, k, now)
    THEN [present |-> TRUE, value |-> channel[k].value,
          expires |-> channel[k].expires]
    ELSE Absent

RedisView(k) == redis[k]

(* C24: after every sequence of set, get, delete, exists, append and
   prepend, with and without ttl, and of seconds passing, the call made on
   the MemoryChannel and the same call made on the RedisChannel have
   returned the same result, and every key reads the same on both. *)
C24_BackendsAgree ==
    /\ reply.op = called.op
    /\ reply.ret = called.ret
    /\ reply.found = called.found
    /\ \A k \in UserKeys : MemoryView(k) = RedisView(k)

(* C24 witness: a list built with a ttl is read back with its two items from
   both channels, while a key that has expired is still held, unread, by the
   MemoryChannel and has been removed by the Redis server. *)
C24_Witness ==
    /\ called.op = "get"
    /\ called.key = "logs"
    /\ Len(called.ret.items) = 2
    /\ reply.ret = called.ret
    /\ redis["logs"].expires # NoTTL
    /\ channel["k"].present
    /\ expired(channel["k"], now)
    /\ ~redis["k"].present

(* ---- namespaces ---- *)

(* What a run under key_prefix p reads: its queue and its channel. *)
NamespaceView(p) ==
    [queue |-> keyspace[queue_key(p)],
     channel |-> [k \in SharedKeys |-> keyspace[channel_key(p, k)]]]

(* C25: a worker started with one key_prefix holds only task specs that a
   producer enqueued under that key_prefix, and a step made under one
   key_prefix (an enqueue, a dequeue, a write or a delete on the channel)
   leaves the queue and the channel of every other key_prefix as they
   were. *)
C25_NamespaceIsolation ==
    /\ [](\A w \in Workers : \A s \in worker[w] :
              s.producer = worker_prefix[w])
    /\ [][\A p \in Prefixes :
            (last' # last /\ last'.task = p) =>
                \A q \in Prefixes \ {p} :
                    NamespaceView(q)' = NamespaceView(q)]_vars

(* C25 witness: workers of both applications hold a spec at the same time,
   each the one its own producer enqueued, while both queues and both
   channels hold something. *)
C25_Witness ==
    /\ \E w1, w2 \in Workers :
         /\ worker_prefix[w1] # worker_prefix[w2]
         /\ worker[w1] # {}
         /\ worker[w2] # {}
    /\ \A p \in Prefixes :
         /\ keyspace[queue_key(p)] # <<>>
         /\ \E k \in SharedKeys : keyspace[channel_key(p, k)] # <<>>

(* ---- graceful shutdown of a worker ---- *)

(* C26: a worker that has got a termination signal takes no new task spec
   from the queue; it stops only when it has no task in flight or when the
   graceful shutdown timeout has passed since the signal; and when its task
   in flight ends before it stops, the result of the task and the increment
   of the barrier are recorded in that step, the worker exiting later. *)
C26_GracefulShutdown ==
    [][\A w \in Workers :
         /\ lifecycle[w].state # "running" =>
                ~(worker[w] = {} /\ worker'[w] # {})
         /\ (lifecycle[w].state = "stopping"
             /\ lifecycle'[w].state = "stopped") =>
                \/ worker[w] = {}
                \/ \E d \in lifecycle[w].deadline : now >= d
         /\ (lifecycle[w].state = "stopping" /\ worker[w] # {}
             /\ worker'[w] = {}) =>
                /\ \A b \in worker[w] : outcome'[b] # None
                /\ barrier'.count = barrier.count + 1
                /\ lifecycle'[w].state = "stopping"
         /\ lifecycle[w].state = "stopped" => worker'[w] = worker[w]]_vars

(* C26 witness: a worker got the signal with a task in flight and specs
   still queued, finished the task within the timeout and has stopped, its
   result counted by the barrier, the rest of the queue left to others. *)
C26_Witness ==
    \E w \in Workers :
        /\ lifecycle[w].state = "stopped"
        /\ worker[w] = {}
        /\ \E d \in lifecycle[w].deadline : now < d
        /\ barrier.count = 1
        /\ work # <<>>
        /\ \A v \in Workers \ {w} :
               worker[v] = {} /\ lifecycle[v].state = "running"

(* ---- errors of the graph ---- *)

(* C27: add_node with an id that is in the graph fails with
   DuplicateIdError, add_edge with an endpoint that is not in the graph
   fails with UnknownNodeError, and both leave the nodes and the successor
   lists as they were; the other calls raise nothing and add the node, or
   the edge at the end of the successors of its source. *)
C27_GraphErrors ==
    [][/\ last'.kind = "add_node" =>
            IF last'.task \in nodes
            THEN /\ error'.type = "DuplicateIdError"
                 /\ UNCHANGED <<nodes, succ>>
            ELSE /\ error'.type = None
                 /\ nodes' = nodes \cup {last'.task}
                 /\ UNCHANGED succ
       /\ last'.kind = "add_edge" =>
            IF last'.task \notin nodes \/ Head(last'.enq) \notin nodes
            THEN /\ error'.type = "UnknownNodeError"
                 /\ UNCHANGED <<nodes, succ>>
            ELSE /\ error'.type = None
                 /\ succ' = [succ EXCEPT ![last'.task] =
                                 Append(@, Head(last'.enq))]
                 /\ UNCHANGED nodes]_vars

(* C27 witness: a node that has successors was added again, the call
   failed, and its successors are still there. *)
C27_Witness ==
    /\ last.kind = "add_node"
    /\ error.type = "DuplicateIdError"
    /\ Len(succ[last.task]) = 2
    /\ nodes = StartNodes

(* ---- checkpoint and resume round trip ---- *)

(* The state of a context that a checkpoint keeps: completed tasks, cycle
   counts, the pending specs in queue order with their retry counts, and
   the contents of the MemoryChannel. *)
Kept(done, cycles, pending, retries, chan) ==
    [completed_tasks |-> done,
     cycle_counts |-> cycles,
     pending_tasks |-> [i \in 1..Len(pending) |->
                          [task_id |-> pending[i],
                           retry_count |-> retries[pending[i]]]],
     channel |-> chan]

(* C28: a checkpoint holds the completed tasks, the cycle counts, the
   pending specs with their retry counts in queue order and the channel
   contents of the context as they are when it is created, and
   resume_from_checkpoint gives a context in which all of them are those of
   the checkpoint, whatever the run did in between. *)
C28_ResumeRestores ==
    [][/\ nckpt' = nckpt + 1 =>
            Kept(ckpt'.completed_tasks, ckpt'.cycle_counts,
                 ckpt'.pending_tasks, ckpt'.retry_count, ckpt'.channel)
              = Kept(completed', cycle_counts', queue', retry_count',
                     channel')
       /\ resumes' = resumes + 1 =>
            Kept(completed', cycle_counts', queue', retry_count', channel')
              = Kept(ckpt.completed_tasks, ckpt.cycle_counts,
                     ckpt.pending_tasks, ckpt.retry_count, ckpt.channel)]_vars

(* C28 witness: the run was resumed from a checkpoint in which a spec that
   had faulted once is pending ahead of a successor of the checkpointed
   task, with two tasks completed and their results in the channel. *)
C28_Witness ==
    /\ Resumed
    /\ resumes = 1
    /\ completed = {"a", "b"}
    /\ queue = <<"e", "c">>
    /\ retry_count["e"] = 1
    /\ channel[result_key("a")].present
    /\ ~channel[result_key("e")].present

(* ---- the state-machine pattern: checkpoint() then next_iteration() ---- *)

(* The checkpoint was written as its task ended an execution with a
   self-loop. *)
LoopCheckpoint ==
    /\ ckpt.task # None
    /\ ckpt.enqueued = <<ckpt.task>>

(* C29: when a handler has called checkpoint() and its execution ends with
   the self-loop of next_iteration(), the checkpoint written after that
   execution has the task in its pending specs, the cycle count of the task
   one higher than before, and the state the handler stored in the channel;
   resuming from it gives a context with the task pending, that cycle count
   and that state in the channel. *)
C29_StateMachine ==
    [][/\ \A t \in Tasks :
            (/\ Returns(t)
             /\ checkpoint_requested
             /\ control_flow(directives) = "loop") =>
                /\ nckpt' = nckpt + 1
                /\ ckpt'.task = t
                /\ t \in Range(ckpt'.pending_tasks)
                /\ ckpt'.cycle_counts[t] = cycle_counts[t] + 1
                /\ ckpt'.channel[StateKey] = channel[StateKey]
       /\ (resumes' = resumes + 1 /\ LoopCheckpoint) =>
            /\ ckpt.task \in Range(queue')
            /\ cycle_counts'[ckpt.task] = ckpt.cycle_counts[ckpt.task]
            /\ channel'[StateKey] = ckpt.channel[StateKey]
            /\ executing' = None
            /\ status' = "running"]_vars

(* C29 witness: the task validated, checkpointed and looped, went on to
   its next state, and the run was resumed from the checkpoint: the task is
   executing again, in its second cycle, with the first state in the
   channel. *)
C29_Witness ==
    /\ resumes = 1
    /\ LoopCheckpoint
    /\ last.kind = "dequeue"
    /\ executing = ckpt.task
    /\ cycle_counts[executing] = 1
    /\ channel[StateKey].value = scalar("VALIDATED")
    /\ ckpt.channel[StateKey].value = scalar("VALIDATED")

(* ---- a requested checkpoint and an execution that does not succeed ---- *)

(* C30: an execution whose handler called checkpoint() and which ends with
   a fault (retried or fatal) or with cancel_workflow writes no checkpoint,
   and its request does not pass on to a later execution; a checkpoint is
   written only at the end of an execution that marks its task completed
   and neither fails nor cancels the run. *)
C30_CheckpointOnlyOnSuccess ==
    [][/\ (last' # last /\ last'.requested
           /\ last'.kind \in {"retry", "fatal", "cancel"}) =>
            /\ UNCHANGED <<ckpt, nckpt>>
            /\ ~checkpoint_requested'
       /\ nckpt' # nckpt =>
            /\ last'.requested
            /\ last'.kind \notin {"retry", "fatal", "cancel"}
            /\ last'.task \in completed'
            /\ ckpt'.task = last'.task
            /\ status' \notin {"failed", "canceled"}]_vars

(* C30 witness: the handler called checkpoint() and then raised: the task
   is queued for its retry, no checkpoint exists, no request is left. *)
C30_Witness ==
    /\ last.kind = "retry"
    /\ last.requested
    /\ nckpt = 0
    /\ ckpt = NoCheckpoint
    /\ ~checkpoint_requested
    /\ last.task \in Range(queue)

(* ---- dynamic tasks: next_task without goto ---- *)

(* The jump is the directive that decides the end of this execution. *)
JumpDecides ==
    /\ directives.cancel = None
    /\ ~directives.terminate
    /\ directives.jump # None

(* Task n, enqueued at run time, is still pending and has never been taken
   from the queue. *)
NeverTaken(n) ==
    /\ n \in Range(queue')
    /\ n \notin completed
    /\ retry_count[n] = 0

(* C31: with next_task(task) and goto=False the added task is enqueued ahead
   of the normal successors of the current task, which are all enqueued as
   well, behind it; and since the queue is taken from its head, when a
   successor of the current task starts the added task is no longer waiting
   for its first execution: the order is the current task, the added task,
   the normal continuation. *)
C31_EnqueueThenContinue ==
    [][/\ \A t \in Tasks :
            (Returns(t) /\ JumpDecides /\ ~directives.goto) =>
                /\ queue' = queue \o <<directives.jump>> \o succ[t]
                /\ completed' = completed \cup {t}
       /\ \A s \in Range(succ["a"]) :
            (executing = None /\ executing' = s) =>
                /\ s = Head(queue)
                /\ \A n \in DynamicTasks \ Range(succ["a"]) : ~NeverTaken(n)]_vars

(* C31 witness: the continuation b is taken from the queue after the task c,
   which a had added with next_task(c) and no goto, has been executed. *)
C31_Witness ==
    /\ last.kind = "dequeue"
    /\ last.task = "b"
    /\ completed = {"a", "c"}
    /\ "c" \notin Range(succ["a"])
    /\ queue = <<>>

(* ---- dynamic edges: successors are read when the handler has returned ---- *)

IsPrefix(p, q) == Len(p) <= Len(q) /\ SubSeq(q, 1, Len(p)) = p

(* C32: a node and an edge that a handler adds to the graph while it runs
   count for that execution: the successors are read when the handler has
   returned, so on normal completion the engine enqueues the successors of
   the task as they are then, the added one included, and an added
   successor comes after those declared before, in insertion order. *)
C32_DynamicEdges ==
    /\ [](\A t \in Tasks :
            /\ IsPrefix(DeclaredSucc[t], succ[t])
            /\ Range(succ[t]) \subseteq nodes)
    /\ [][\A t \in Tasks :
            (Returns(t) /\ issued(directives) = 0) =>
                /\ queue' = queue \o succ[t]
                /\ \A n \in Range(succ[t]) : n \in Range(queue')]_vars

(* C32 witness: a has returned after its handler had added c and then e as
   its successors, and b, c and e have been enqueued in that order. *)
C32_Witness ==
    /\ last.kind = "normal"
    /\ last.task = "a"
    /\ last.enq = <<"b", "c", "e">>
    /\ succ["a"] = <<"b", "c", "e">>
    /\ {"c", "e"} \subseteq nodes

(* ---- a task that depends on several tasks ---- *)

(* Task t is taken from the queue in this step. *)
Starts(t) == executing = None /\ executing' = t

(* t has started before: it is completed, or an attempt of it has faulted. *)
HasRun(t) == t \in completed \/ retry_count[t] > 0 \/ status = "failed"

(* The groups among the predecessors of t. *)
GroupsBefore(t) == {g \in predecessors(nodes, succ, t) : members[g] # {}}

(* The predecessors of t: the tasks with an edge to t and, for a group
   among them, its branches. *)
SeveralPredecessors(t) ==
    \/ Cardinality(predecessors(nodes, succ, t)) > 1
    \/ GroupsBefore(t) # {}

PredecessorsCompleted(t) ==
    /\ predecessors(nodes, succ, t) \subseteq completed
    /\ \A g \in GroupsBefore(t) : \A b \in members[g] : outcome[b] = "ok"

(* C33: a task that has several predecessors, be they the branches of a
   group or tasks with a plain edge to it, starts only when all of them
   have completed, and it starts once: it has not run before and no second
   copy of it is pending. *)
C33_AfterAllPredecessors ==
    [][\A t \in Tasks :
         (Starts(t) /\ SeveralPredecessors(t)) =>
             /\ PredecessorsCompleted(t)
             /\ ~HasRun(t)
             /\ t \notin Range(queue')]_vars

(* ---- appends of parallel branches to one key ---- *)

(* The list under the key the branches append to, on each backend. *)
Collected(store) == store[ResultsKey].value.items

(* C34: when the N branches of a group each append one value to the same
   key, whatever the interleaving of the workers, the list holds the value
   of every branch that has appended exactly once and nothing else, on the
   MemoryChannel and on the RedisChannel alike; so once the barrier has let
   the run go on, under the default policy, it holds exactly the N values,
   each once. *)
C34_ParallelAppends ==
    /\ \A b \in BranchIds :
         /\ Occurrences(Collected(channel), branch_result(b))
              = IF b \in collected THEN 1 ELSE 0
         /\ Occurrences(Collected(redis), branch_result(b))
              = IF b \in collected THEN 1 ELSE 0
    /\ Len(Collected(channel)) = Cardinality(collected)
    /\ Len(Collected(redis)) = Cardinality(collected)
    /\ "g" \in completed =>
         /\ collected = members["g"]
         /\ Len(Collected(channel)) = Cardinality(members["g"])
         /\ Len(Collected(redis)) = Cardinality(members["g"])

(* C34 witness: the successor of the group has run, and the list holds the
   values of all the branches, the one of the last branch first: the
   appends were made in another order than the dispatch. *)
C34_Witness ==
    /\ {"g", "c"} \subseteq completed
    /\ Len(Collected(channel)) = NBranches
    /\ Collected(channel)[1] = branch_result(NBranches)
    /\ Collected(redis) = Collected(channel)

(* ---- next_task without the goto argument ---- *)

(* The execution of t that now returns has called next_task without the goto
   argument, and that call decides how the run goes on. *)
CalledWithoutGoto(t) ==
    /\ Returns(t)
    /\ JumpDecides
    /\ last.kind = "next_task"
    /\ last.task = t
    /\ last.call.made
    /\ last.call.given = {}

(* C36: next_task(task) without goto, on a task that was in the graph when
   it was called, is a jump: the task alone is enqueued and the successors
   of the current task are skipped; on a task that was not in the graph it
   adds the task, enqueues it and still enqueues the successors of the
   current task. *)
C36_AutoGoto ==
    [][\A t \in Tasks : CalledWithoutGoto(t) =>
          /\ directives.jump \in nodes
          /\ completed' = completed \cup {t}
          /\ directives.goto = last.call.existing
          /\ last.call.existing => queue' = queue \o <<directives.jump>>
          /\ ~last.call.existing =>
                queue' = queue \o <<directives.jump>> \o succ[t]]_vars

(* C36 witness: a has called next_task(b) on its declared successor b
   without goto and has returned: b was enqueued once, as the target of the
   jump, and not a second time as successor. *)
C36_Witness ==
    /\ last.kind = "jump"
    /\ last.task = "a"
    /\ last.call.made
    /\ last.call.given = {}
    /\ last.call.existing
    /\ last.enq = <<"b">>
    /\ succ["a"] = <<"b">>

(* The other case of C36 happens as well: a has called next_task(c) on the
   new task c without goto, and c and the successor b were both enqueued. *)
C36_WitnessNewTask ==
    /\ last.kind = "jump"
    /\ last.task = "a"
    /\ last.call.made
    /\ last.call.given = {}
    /\ ~last.call.existing
    /\ last.enq = <<"c", "b">>

(* ---- the checkpoint request is consumed ---- *)

(* This step ends an execution of a task: its handler returned or raised. *)
ExecutionEnds ==
    /\ executing # None
    /\ executing' = None
    /\ last' # last
    /\ last'.task = executing

(* C37: the request made by ctx.checkpoint() is consumed when the execution
   that made it ends. Between two executions the flag is clear; the end of
   an execution, with or without a checkpoint, by return, fault or cancel,
   leaves it clear; the end of an execution that did not call checkpoint()
   writes no checkpoint; and the end of one that did writes at most one. *)
C37_RequestConsumed ==
    /\ [](executing = None => ~checkpoint_requested)
    /\ [][/\ ExecutionEnds =>
               /\ ~checkpoint_requested'
               /\ ~checkpoint_requested => UNCHANGED <<ckpt, nckpt>>
               /\ nckpt' \in {nckpt, nckpt + 1}
          /\ nckpt' # nckpt => (ExecutionEnds /\ checkpoint_requested)]_vars

(* C37 witness: a called checkpoint() in its first execution, which wrote
   the one checkpoint there is; a was executed again, after a loop, without
   calling checkpoint(), and that execution has ended without writing
   another. *)
C37_Witness ==
    /\ nckpt = 1
    /\ ckpt.task = "a"
    /\ last.task = "a"
    /\ last.kind \in Returned
    /\ ~last.requested
    /\ cycle_counts["a"] > 0
    /\ ckpt.cycle_counts["a"] < cycle_counts["a"]
    /\ ~checkpoint_requested

(* ---- a jump issued by a branch of a group ---- *)

(* This step is a call of next_task by a branch in flight. *)
BranchJumps ==
    /\ last' # last
    /\ last'.kind = "branch_jump"

(* C35: a jump issued from inside a branch of a parallel group, or whose
   target is executing or waiting at its barrier, is rejected: the target is
   not enqueued, the branch still reports to the barrier, the counter is
   left as it is, and the successor of the group is enqueued once, when the
   barrier has counted every branch. *)
C35_BranchJumpRejected ==
    /\ [][BranchJumps =>
             /\ queue' = queue
             /\ barrier' = barrier
             /\ worker' = worker
             /\ joinEnq' = joinEnq]_vars
    /\ []("g" \in completed => barrier.count = barrier.n)
    /\ [](joinEnq <= 1)

(* ---- the barrier counter and branches that are executed again ---- *)

(* The branches that have completed, with success or failure. *)
ReportedBranches == {b \in DOMAIN outcome : outcome[b] # None}

(* The coordinator left wait_barrier because the counter reached n. *)
ReleasedByCount ==
    /\ last.kind \in {"join", "group_failed"}
    /\ ~last.report.timeout

(* C38: the barrier counter counts the distinct branches that have
   completed: it never exceeds the branch count and equals the number of
   completed branches, also when a task spec is delivered and executed again
   after a worker crash; so when the counter releases the barrier every
   branch has completed. *)
C38_CountsDistinctBranches ==
    /\ barrier.count <= barrier.n
    /\ barrier.count = Cardinality(ReportedBranches)
    /\ ReleasedByCount => last.report.seen = members["g"]

(* ---- the barrier phase resolves ---- *)

(* This step is the coordinator leaving wait_barrier and evaluating the
   policy of the group. *)
Evaluates ==
    /\ last' # last
    /\ last'.kind \in {"join", "group_failed"}

(* C39: once the group is dispatched the coordinator eventually stops
   waiting, whatever the branches and the workers do; it stops only when
   every branch has reported or the timeout has elapsed; it evaluates the
   policy once per dispatch; and a branch that has not reported by then is
   not among the succeeded ones, so that under the default policy a timeout
   with a branch missing fails the group. *)
C39_BarrierResolves ==
    /\ waiting ~> ~waiting
    /\ [](joinEnq <= 1)
    /\ [][/\ (waiting /\ ~waiting') => Evaluates
          /\ Evaluates =>
               /\ waiting /\ ~waiting'
               /\ last'.report.timeout \/ barrier.count >= barrier.n
               /\ last'.report.ok = {b \in members["g"] : outcome[b] = "ok"}
               /\ last'.report.ok \subseteq last'.report.seen
               /\ (policy = NoPolicy /\ last'.report.seen # members["g"]) =>
                     last'.kind = "group_failed"]_vars

(* C39 witness: a worker crashed with its branch, the branch never
   reported, and the coordinator stopped waiting at the timeout and failed
   the group. *)
C39_Witness ==
    /\ last.kind = "group_failed"
    /\ last.report.timeout
    /\ last.report.seen # members["g"]
    /\ \E w \in Workers : lifecycle[w].state = "stopped"
    /\ ~waiting
    /\ status = "failed"

(* ---- a run without directives terminates ---- *)

(* The run has ended with success, the tasks reachable from its start node
   are the completed ones, and nothing is left in the queue. *)
EndedOnReachable ==
    /\ error.type = None
    /\ queue = <<>>
    /\ executing = None
    /\ completed = ReachableFrom(StartOf.node)

(* Only tasks reachable from the start node are queued, executing or
   completed. *)
OnlyReachable ==
    status \in {"running", "done"} =>
        completed \cup ({executing} \ {None}) \cup Range(queue)
            \subseteq ReachableFrom(StartOf.node)

(* C40 as stated: a run over a finite graph whose handlers all return
   without fault and issue no directive eventually ends with success, on an
   empty queue, with exactly the tasks reachable from the start node
   completed and no other task executed. *)
C40_RunTerminates ==
    /\ (status = "running") ~> (status = "done")
    /\ [](status = "done" => EndedOnReachable)
    /\ []OnlyReachable

(* C40, amended: the same of a run over an acyclic graph. The run is not
   cut short by the bound on the dequeues. *)
C40_AcyclicRunTerminates ==
    /\ (status = "running" /\ Acyclic) ~> (status = "done")
    /\ []((status = "done" /\ Acyclic) => EndedOnReachable)
    /\ [](Acyclic => OnlyReachable)
    /\ []((Acyclic /\ status = "running" /\ queue # <<>>) => steps < MaxSteps)

(* C40 witness: the chain a >> b >> c was started at b and has ended: b and
   c are completed, a was never executed. *)
C40_Witness ==
    /\ status = "done"
    /\ Acyclic
    /\ succ["a"] = <<"b">>
    /\ succ["b"] = <<"c">>
    /\ start_node = "b"
    /\ completed = {"b", "c"}
    /\ steps = 2

====
